---- MODULE Spec2Model ----
(***************************************************************************)
(* A model of the ReactiveRS synchronous reactive runtime: processes and   *)
(* continuations (src/reactive/process.rs, continuation.rs), the           *)
(* sequential and the parallel scheduler (runtime/*.rs) and the signals    *)
(* (signal/*.rs).                                                          *)
(*                                                                         *)
(* Closures are defunctionalised: a process is a record with an `op`      *)
(* field, a continuation a record with a `k` field, and a thread executes  *)
(* them with a small-step machine (Step).  The sequential runtime runs a   *)
(* popped continuation to completion in one action; on the parallel        *)
(* runtime every step of a worker is an action of its own, interleaved     *)
(* with the other workers and with the orchestrator that runs instant().   *)
(*                                                                         *)
(* Ghost state (fields ri, rp, id, ge, gid, the variable hist and the      *)
(* counter nid) only records when things happened; no step reads it.       *)
(***************************************************************************)
EXTENDS Integers, Sequences, FiniteSets, TLC

VARIABLES
    prog,                  \* the process graph handed to execute_process(_par)
    rt,                    \* "seq": SequentialRuntime, "par": ParallelRuntime
    pc,                    \* position of the thread that runs execute()/instant()
    inst,                  \* number of the instant() call in progress (ghost)
    current_instant,       \* Runtime.current_instant
    end_instant,           \* Runtime.end_instant
    next_current_instant,  \* Runtime.next_current_instant
    next_end_instant,      \* SequentialRuntime.next_end_instant
    todo,                  \* TodoQueue.queue
    count,                 \* TodoQueue.count
    waiting,               \* the orchestrator sleeps in TodoQueue.notify.wait
    workers,               \* the worker threads of ParallelRuntime::execute
    sig,                   \* the signal cells (Arc<Mutex<..SignalRuntime>>)
    jp,                    \* the JoinPoint cells allocated by Join::call
    mem,                   \* the counters n and m shared by the test closures
    result,                \* the Option captured by the tail continuation
    hist,                  \* ghost: the events that happened, with their instant
    nid                    \* ghost: next identifier of a signal request

vars == <<prog, rt, pc, inst, current_instant, end_instant, next_current_instant,
          next_end_instant, todo, count, waiting, workers, sig, jp, mem, result,
          hist, nid>>

(***************************************************************************)
(* Bounds                                                                  *)
(***************************************************************************)
\* iterations of the loops of test_process_while / test_signal_present
\* (42 in the tests)
LoopN == 2
\* worker threads of the parallel runtime (12 in execute_process_par)
NWorkers == 2

(***************************************************************************)
(* Values                                                                  *)
(***************************************************************************)
Unit == [t |-> "unit"]
IntV(n) == [t |-> "int", n |-> n]
BoolV(b) == [t |-> "bool", b |-> b]
Pair(a, b) == [t |-> "pair", a |-> a, b |-> b]
\* Vec<V>
ListV(l) == [t |-> "list", l |-> l]
\* LoopStatus
Continue == [t |-> "continue"]
Exit(v) == [t |-> "exit", v |-> v]
\* Option
None == [t |-> "none"]
Some(v) == [t |-> "some", v |-> v]
\* the (process, value) pair a ProcessMut hands to its continuation
PV(p, v) == [t |-> "pv", p |-> p, v |-> v]

Reverse(s) == [i \in 1..Len(s) |-> s[Len(s) + 1 - i]]
Last(s) == s[Len(s)]
Front(s) == SubSeq(s, 1, Len(s) - 1)

(***************************************************************************)
(* Processes: the structs of process.rs and signal/*.rs                    *)
(***************************************************************************)
value(v) == [op |-> "value", v |-> v]
map(p, f) == [op |-> "map", p |-> p, f |-> f]
pause(p) == [op |-> "pause", p |-> p]
flatten(p) == [op |-> "flatten", p |-> p]
then(p, q) == [op |-> "then", p |-> p, q |-> q]
join(p, q) == [op |-> "join", p |-> p, q |-> q]
multi_join(ps) == [op |-> "multi_join", ps |-> ps]
while_loop(p) == [op |-> "while", p |-> p]
if_else(r, p, q) == [op |-> "if", r |-> r, p |-> p, q |-> q]
PEmit(s) == [op |-> "pemit", s |-> s]
PAwaitImmediate(s) == [op |-> "pawait_immediate", s |-> s]
PPresent(s) == [op |-> "ppresent", s |-> s]
VEmit(s, p) == [op |-> "vemit", s |-> s, p |-> p]
VAwait(s) == [op |-> "vawait", s |-> s]
\* signal/unique_consumer_signal.rs
UCEmit(s, p) == [op |-> "ucemit", s |-> s, p |-> p]
UCAwait(s) == [op |-> "ucawait", s |-> s]
\* signal/unique_producer_signal.rs
UPEmit(s, p) == [op |-> "upemit", s |-> s, p |-> p]
UPAwaitImmediate(s) == [op |-> "upaimm", s |-> s]
VAwaitImmediate(s) == [op |-> "vawait_immediate", s |-> s]
VPresent(s) == [op |-> "vpresent", s |-> s]

(***************************************************************************)
(* The closures the tests pass to map: each reads and writes the counters  *)
(* behind Arc<Mutex<i32>> and returns a value.                             *)
(***************************************************************************)
ApplyF(f, x, m) ==
    CASE f = "set_n_1337" -> [v |-> Unit, mem |-> [m EXCEPT !.n = 1337]]
      [] f = "set_n_42" -> [v |-> Unit, mem |-> [m EXCEPT !.n = 42]]
      [] f = "inc_n" -> [v |-> Unit, mem |-> [m EXCEPT !.n = @ + 1]]
      [] f = "iter" ->
            [v |-> IF m.n + 1 = LoopN THEN Exit(Unit) ELSE Continue,
             mem |-> [m EXCEPT !.n = @ + 1]]
      [] f = "iter2" -> [v |-> Continue, mem |-> [m EXCEPT !.m = @ + 2]]
      [] f = "mul" -> [v |-> IntV(x.a.n * x.b.n), mem |-> m]
      [] f = "inc" -> [v |-> IntV(x.n + 1), mem |-> m]
      [] f = "iter_v" ->
            [v |-> IF m.n + 1 = LoopN THEN Exit(IntV(m.n + 1)) ELSE Continue,
             mem |-> [m EXCEPT !.n = @ + 1]]
      [] f = "p_mark" -> [v |-> x, mem |-> [m EXCEPT !.n = @ + 1]]
      [] f = "q_mark" -> [v |-> x, mem |-> [m EXCEPT !.n = @ + 10]]
      [] f = "count_m" -> [v |-> x, mem |-> [m EXCEPT !.m = @ + 1]]
      [] f = "set_n_val" -> [v |-> Unit, mem |-> [m EXCEPT !.n = x.n]]
      [] f = "store_inc" -> [v |-> IntV(x.n + 1), mem |-> [m EXCEPT !.n = x.n]]
      [] OTHER -> [v |-> x, mem |-> m]

(***************************************************************************)
(* The process graphs: the graphs of tests.rs and of the seed scenarios of *)
(* the specification, and small graphs over the same constructors.         *)
(***************************************************************************)
AwaitBranch(s) == map(PAwaitImmediate(s), "set_n_1337")
EmitBranch(s) ==
    map(then(then(pause(map(value(Unit), "set_n_42")), PEmit(s)), pause(value(Unit))),
        "inc_n")

Graph(name) ==
    CASE name = "parallel" -> join(value(IntV(15)), value(IntV(1337)))
      [] name = "signal_await" -> join(AwaitBranch(1), EmitBranch(1))
      [] name = "signal_await_2" -> join(AwaitBranch(1), EmitBranch(1))
      [] name = "s2" -> join(PAwaitImmediate(1), pause(PEmit(1)))
      [] name = "signal_present" ->
            join(while_loop(pause(map(PEmit(1), "iter"))),
                 while_loop(pause(if_else(PPresent(1),
                                          map(value(Unit), "iter2"),
                                          value(Exit(Unit))))))
      [] name = "present_emit" -> join(PEmit(1), PPresent(1))
      [] name = "emit_present" -> join(PPresent(1), PEmit(1))
      [] name = "present_alone" -> join(PPresent(1), pause(value(Unit)))
      [] name = "present_next" ->
            join(PEmit(1), then(pause(value(Unit)), PPresent(1)))
      [] name = "end_emit_a" ->
            join(PEmit(1),
                 join(then(PPresent(2), PEmit(1)),
                      then(pause(value(Unit)), PPresent(1))))
      [] name = "end_emit_b" ->
            join(join(then(PPresent(2), PEmit(1)),
                      then(pause(value(Unit)), PPresent(1))),
                 PEmit(1))
      [] name = "end_emit_await" ->
            join(PAwaitImmediate(1), then(PPresent(2), PEmit(1)))
      [] name = "value_signal_1" ->
            join(then(VEmit(1, value(IntV(1))), VEmit(1, value(IntV(5)))), VAwait(1))
      [] name = "value_signal_2" ->
            join(then(VEmit(1, value(IntV(1))), pause(VEmit(1, value(IntV(5))))),
                 VAwait(1))
      [] name = "value_signal_3" ->
            join(then(then(VEmit(1, value(IntV(2))), pause(VEmit(1, value(IntV(5))))),
                      pause(VEmit(1, value(IntV(15))))),
                 map(join(VAwait(1), then(VAwait(1), VAwait(1))), "mul"))
      [] name = "await_late" ->
            join(VAwait(1), pause(VEmit(1, value(IntV(3)))))
      [] name = "gather_a" ->
            join(VEmit(1, value(IntV(1))), join(VEmit(1, value(IntV(5))), VAwait(1)))
      [] name = "gather_b" ->
            join(join(VAwait(1), VEmit(1, value(IntV(5)))), VEmit(1, value(IntV(1))))
      [] name = "gather_c" ->
            join(join(VEmit(1, value(IntV(1))), VEmit(1, value(IntV(5)))),
                 join(VAwait(1), value(Unit)))
      [] name = "pause_in_end" -> then(PPresent(1), pause(value(Unit)))
      [] name = "present_false_emit" -> then(PPresent(1), PEmit(1))
      [] name = "present_true_emit" -> join(then(PPresent(1), PEmit(1)), PEmit(1))
      [] name = "await_between_hooks" ->
            join(VEmit(1, value(IntV(5))),
                 join(then(PPresent(2), VAwait(1)), VEmit(1, value(IntV(1)))))
      [] name = "multi_join_0" -> multi_join(<<>>)
      [] name = "pause_in_end_twice" ->
            then(PPresent(1), pause(then(PPresent(1), pause(value(Unit)))))
      [] name = "end_both" ->
            join(then(PPresent(2), VEmit(1, value(IntV(1)))), VAwait(1))
      [] name = "process_pause" -> map(pause(value(IntV(42))), "set_n_val")
      [] name = "process_pause_inc" -> map(pause(value(IntV(41))), "store_inc")
      [] name = "join_pause_l" -> join(pause(value(IntV(1))), value(IntV(2)))
      [] name = "join_pause_r" -> join(value(IntV(1)), pause(value(IntV(2))))
      [] name = "multi_join_1" -> multi_join(<<value(IntV(7))>>)
      [] name = "multi_join_3" ->
            multi_join(<<pause(value(IntV(1))), value(IntV(2)),
                         pause(pause(value(IntV(3))))>>)
      [] name = "multi_join_rev" ->
            multi_join(<<pause(pause(value(IntV(1)))), pause(value(IntV(2))),
                         value(IntV(3))>>)
      [] name = "process_while" ->
            map(while_loop(map(value(Unit), "iter_v")), "count_m")
      [] name = "process_if" ->
            if_else(value(BoolV(FALSE)),
                    if_else(value(BoolV(TRUE)), value(IntV(1)), value(IntV(2))),
                    if_else(value(BoolV(TRUE)), value(IntV(3)), value(IntV(4))))
      [] name = "process_return" -> value(IntV(42))
      [] name = "pause_loop" -> while_loop(pause(map(value(Unit), "iter_v")))
      [] name = "process_then" ->
            then(map(value(IntV(3)), "store_inc"), map(value(IntV(7)), "store_inc"))
      [] name = "if_true" ->
            if_else(map(value(BoolV(TRUE)), "count_m"),
                    map(value(IntV(10)), "p_mark"), map(value(IntV(20)), "q_mark"))
      [] name = "if_false" ->
            if_else(map(value(BoolV(FALSE)), "count_m"),
                    map(value(IntV(10)), "p_mark"), map(value(IntV(20)), "q_mark"))
      [] name = "uc_1" ->
            join(then(UCEmit(1, value(IntV(1))), UCEmit(1, value(IntV(5)))), UCAwait(1))
      [] name = "uc_2" ->
            join(then(UCEmit(1, value(IntV(1))), pause(UCEmit(1, value(IntV(5))))),
                 UCAwait(1))
      [] name = "up_1" ->
            join(UPEmit(1, value(IntV(1))), join(UPAwaitImmediate(1), UPAwaitImmediate(1)))
      [] name = "up_2" ->
            join(join(UPAwaitImmediate(1), UPAwaitImmediate(1)), UPEmit(1, value(IntV(1))))
      [] name = "uc_await_twice" -> join(UCAwait(1), UCAwait(1))
      [] name = "uc_await_emit" ->
            join(UCEmit(1, value(IntV(1))), join(UCAwait(1), UCAwait(1)))
      [] name = "await_alone" ->
            join(VAwait(1), pause(value(Unit)))
      [] OTHER -> value(Unit)

\* the graphs whose signal 1 is a UniqueConsumerSignal of Vec<i32> with
\* default vec![] and a gather that pushes
UCPrograms == {"uc_1", "uc_2", "uc_await_twice", "uc_await_emit"}

Programs ==
    {"parallel", "signal_await", "signal_await_2", "s2", "signal_present",
     "present_emit", "emit_present", "present_alone", "present_next",
     "end_emit_a", "end_emit_b", "end_emit_await",
     "value_signal_1", "value_signal_2", "value_signal_3",
     "await_late", "await_alone", "gather_a", "gather_b", "gather_c",
     "pause_in_end", "end_both", "process_pause", "process_pause_inc",
     "join_pause_l", "join_pause_r",
     "multi_join_1", "multi_join_3", "multi_join_rev",
     "process_while", "process_if", "if_true", "if_false", "process_return",
     "process_then", "pause_loop", "pause_in_end_twice",
     "present_false_emit", "present_true_emit", "await_between_hooks",
     "multi_join_0"}
        \cup UCPrograms \cup {"up_1", "up_2"}

Signals == {1, 2}

\* test_signal_await_2 sets the status of its signal before it runs
PresetStatus(name, s) == name = "signal_await_2" /\ s = 1

\* PureSignal::new / ValueSignal::new(0, |x, y| x + y)
NewSignal(name, s) ==
    [status |-> PresetStatus(name, s), owner |-> 0,
     callbacks |-> <<>>, waiting_present |-> <<>>, waiting_await |-> <<>>,
     default_value |-> IF name \in UCPrograms /\ s = 1 THEN <<>> ELSE 0,
     current_value |-> IF name \in UCPrograms /\ s = 1 THEN <<>> ELSE 0]

\* tests.rs, test_unique_consumer_signal: |mut v, x| { v.push(x); v }
gather_push(v, x) == Append(v, x)

\* a gather that is not commutative: the last emitted value wins
gather_last(x, y) == y

\* tests.rs, test_value_signal: |x, y| x + y
gather(x, y) == x + y

(***************************************************************************)
(* The machine that executes processes and continuations.                  *)
(*                                                                         *)
(* A thread is [id, ctl, stack, ph]: ctl is what it executes next, stack   *)
(* the calls that are waiting for the present one to return, ph the phase  *)
(* ("cur" or "end") of the continuation it was handed (ghost).  sh is the  *)
(* state shared by all threads.  Every operator below takes (th, sh) and   *)
(* returns the pair after one step.                                        *)
(***************************************************************************)
CallP(p, k) == [m |-> "P", p |-> p, k |-> k]
CallPM(p, k) == [m |-> "PM", p |-> p, k |-> k]
CallK(k, v) == [m |-> "K", k |-> k, v |-> v]
Ret == [m |-> "ret"]
\* a second lock() of a std::sync::Mutex by the thread that holds it, or a
\* panic: the call never returns
Stuck == [m |-> "stuck"]

Go(th, sh, ctl) == [th |-> [th EXCEPT !.ctl = ctl], sh |-> sh]

Ev(e, s, sh, th, v, id) ==
    [e |-> e, s |-> s, i |-> sh.inst, ph |-> th.ph, v |-> v, id |-> id]

Entry(c, sh, th, ge, gid) ==
    [c |-> c, ri |-> sh.inst, rp |-> th.ph, q |-> "current", ge |-> ge, gid |-> gid]

\* Runtime::on_current_instant / on_next_instant / on_end_of_instant: a push
\* at the back of the Vec (sequential) or of the MsQueue (parallel)
\* a runtime whose on_current_instant pushed on the end-of-instant queue
on_current_instant_end(sh, e) == [sh EXCEPT !.end_instant = Append(@, e)]

on_current_instant(sh, e) == [sh EXCEPT !.current_instant = Append(@, e)]
\* a runtime whose on_next_instant pushed on the queue of the running instant
on_next_instant_now(sh, e) ==
    [sh EXCEPT !.current_instant = Append(@, [e EXCEPT !.q = "next"])]

on_next_instant(sh, e) ==
    [sh EXCEPT !.next_current_instant = Append(@, [e EXCEPT !.q = "next"])]
on_end_of_instant(sh, e) ==
    [sh EXCEPT !.end_instant = Append(@, [e EXCEPT !.q = "end"])]

\* the boxed closure |run, _| p.call(run, next)
BoxCall(p, next) == [k |-> "call", p |-> p, next |-> next]
\* the boxed closure |run, _| p.call_mut(run, next)
BoxCallMut(p, next) == [k |-> "call_mut", p |-> p, next |-> next]
\* the boxed closure |run, ()| c.call_box(run, value)
Deliver(c, v) == [k |-> "deliver", c |-> c, v |-> v]
\* continuation.rs: Map { continuation, map }
CMap(next, f) == [k |-> "cmap", f |-> f, next |-> next]
\* continuation.rs: Pause { continuation }
CPause(c) == [k |-> "cpause", c |-> c]

(***************************************************************************)
(* process.rs: Process::call                                               *)
(***************************************************************************)
\* a value that hands its continuation to the next instant
Value_call_next(th, sh) ==
    Go(th, on_next_instant(sh, Entry(Deliver(th.ctl.k, th.ctl.p.v), sh, th, "", 0)), Ret)

\* Value::call
Value_call(th, sh) == Go(th, sh, CallK(th.ctl.k, th.ctl.p.v))

\* Map::call
Map_call(th, sh) ==
    Go(th, sh, CallP(th.ctl.p.p, [k |-> "map", f |-> th.ctl.p.f, next |-> th.ctl.k]))

\* the closure of Map::call: next.call(runtime, f(x))
Map_cont(th, sh) ==
    LET r == ApplyF(th.ctl.k.f, th.ctl.v, sh.mem)
    IN  Go(th, [sh EXCEPT !.mem = r.mem], CallK(th.ctl.k.next, r.v))

\* a then that starts with its second process
Then_call_swapped(th, sh) ==
    Go(th, sh, CallP(th.ctl.p.q, [k |-> "then", q |-> th.ctl.p.p, next |-> th.ctl.k]))

\* Then::call and its closure
Then_call(th, sh) ==
    Go(th, sh, CallP(th.ctl.p.p, [k |-> "then", q |-> th.ctl.p.q, next |-> th.ctl.k]))

Then_cont(th, sh) == Go(th, sh, CallP(th.ctl.k.q, th.ctl.k.next))

\* Flatten::call and its closure
Flatten_call(th, sh) ==
    Go(th, sh, CallP(th.ctl.p.p, [k |-> "flatten", next |-> th.ctl.k]))

Flatten_cont(th, sh) == Go(th, sh, CallP(th.ctl.v, th.ctl.k.next))

\* Pause::call
\* a pause that starts its process in the instant of the call
Pause_call_now(th, sh) == Go(th, sh, CallP(th.ctl.p.p, th.ctl.k))

Pause_call(th, sh) ==
    Go(th, on_next_instant(sh, Entry(BoxCall(th.ctl.p.p, th.ctl.k), sh, th, "", 0)), Ret)

\* Join::call: the JoinPoint and the first on_current_instant
Join_call(th, sh) ==
    LET j == Len(sh.jp) + 1
        cell == [v1 |-> None, v2 |-> None, next |-> Some(th.ctl.k),
                 g1 |-> None, g2 |-> None, out |-> None, fired |-> 0]
        c1 == BoxCall(th.ctl.p.p, [k |-> "join", j |-> j, slot |-> 1])
    IN  Go(th,
           on_current_instant([sh EXCEPT !.jp = Append(@, cell)], Entry(c1, sh, th, "", 0)),
           [m |-> "join2", q |-> th.ctl.p.q, j |-> j])

\* Join::call: the second on_current_instant
Join_call_2(th, sh) ==
    LET c2 == BoxCall(th.ctl.q, [k |-> "join", j |-> th.ctl.j, slot |-> 2])
    IN  Go(th, on_current_instant(sh, Entry(c2, sh, th, "", 0)), Ret)

\* JoinPoint::is_filled
is_filled(cell) == cell.v1.t = "some" /\ cell.v2.t = "some" /\ cell.next.t = "some"

\* the join point with the value v recorded by the closure of branch slot;
\* g1 and g2 keep what each branch delivered, out what next was called
\* with and fired how often, after try_call_next has taken the options
Recorded(cell, slot, v) ==
    IF slot = 1
    THEN [cell EXCEPT !.v1 = Some(v), !.g1 = Some(v)]
    ELSE [cell EXCEPT !.v2 = Some(v), !.g2 = Some(v)]

\* JoinPoint::try_call_next on a filled join point: the three take()
Taken(cell, pair) ==
    [cell EXCEPT !.v1 = None, !.v2 = None, !.next = None,
                 !.out = Some(pair), !.fired = @ + 1]

\* closures that hand next the pair (v2, v1)
Join_cont_swapped(th, sh) ==
    LET j == th.ctl.k.j
        cell == Recorded(sh.jp[j], th.ctl.k.slot, th.ctl.v)
        pair == Pair(cell.v2.v, cell.v1.v)
    IN  IF is_filled(cell)
        THEN Go(th, [sh EXCEPT !.jp[j] = Taken(cell, pair)], CallK(cell.next.v, pair))
        ELSE Go(th, [sh EXCEPT !.jp[j] = cell], Ret)

\* the closures of Join::call: record the value, then JoinPoint::try_call_next
Join_cont(th, sh) ==
    LET j == th.ctl.k.j
        cell == Recorded(sh.jp[j], th.ctl.k.slot, th.ctl.v)
        pair == Pair(cell.v1.v, cell.v2.v)
    IN  IF is_filled(cell)
        THEN Go(th, [sh EXCEPT !.jp[j] = Taken(cell, pair)], CallK(cell.next.v, pair))
        ELSE Go(th, [sh EXCEPT !.jp[j] = cell], Ret)

\* the join points of Join::call and of MultiJoin::call
IsJoin(cell) == "v1" \in DOMAIN cell
IsMultiJoin(cell) == "results" \in DOMAIN cell

\* MultiJoin::call: the JoinPoint with one None per process
MultiJoin_call(th, sh) ==
    LET j == Len(sh.jp) + 1
        n == Len(th.ctl.p.ps)
        cell == [results |-> [i \in 1..n |-> None], next |-> Some(th.ctl.k),
                 got |-> [i \in 1..n |-> None], out |-> None, fired |-> 0]
    IN  Go(th, [sh EXCEPT !.jp = Append(@, cell)],
           [m |-> "multi_join", ps |-> th.ctl.p.ps, j |-> j, ct |-> 1])

\* MultiJoin::call: one turn of `for process in self.processes`
MultiJoin_loop(th, sh) ==
    LET c == th.ctl
    IN  IF c.ct > Len(c.ps)
        THEN Go(th, sh, Ret)
        ELSE Go(th,
                on_current_instant(sh,
                    Entry(BoxCall(c.ps[c.ct], [k |-> "multi_join", j |-> c.j, cur |-> c.ct]),
                          sh, th, "", 0)),
                [c EXCEPT !.ct = @ + 1])

\* JoinPoint::is_filled of MultiJoin::call
MultiJoin_is_filled(cell) ==
    cell.next.t = "some" /\ \A i \in DOMAIN cell.results : cell.results[i].t = "some"

\* the closure of MultiJoin::call: jp.results[cur] = Some(res), then
\* JoinPoint::try_call_next
MultiJoin_cont(th, sh) ==
    LET j == th.ctl.k.j
        cur == th.ctl.k.cur
        cell == [sh.jp[j] EXCEPT !.results[cur] = Some(th.ctl.v),
                                 !.got[cur] = Some(th.ctl.v)]
        results == ListV([i \in DOMAIN cell.results |-> cell.results[i].v])
    IN  IF MultiJoin_is_filled(cell)
        THEN Go(th,
                [sh EXCEPT !.jp[j] =
                    [cell EXCEPT !.results = [i \in DOMAIN cell.results |-> None],
                                 !.next = None, !.out = Some(results),
                                 !.fired = @ + 1]],
                CallK(cell.next.v, results))
        ELSE Go(th, [sh EXCEPT !.jp[j] = cell], Ret)

\* While::call and its closure
While_call(th, sh) == Go(th, sh, CallPM(th.ctl.p.p, [k |-> "while", next |-> th.ctl.k]))

\* a loop that gives up at the first Continue
While_cont_stop(th, sh) ==
    IF th.ctl.v.v.t = "continue"
    THEN Go(th, sh, Ret)
    ELSE Go(th, sh, CallK(th.ctl.k.next, th.ctl.v.v.v))

While_cont(th, sh) ==
    IF th.ctl.v.v.t = "continue"
    THEN Go(th, sh, CallP(while_loop(th.ctl.v.p), th.ctl.k.next))
    ELSE Go(th, sh, CallK(th.ctl.k.next, th.ctl.v.v.v))

\* If::call and its closure
If_call(th, sh) ==
    Go(th, sh, CallP(th.ctl.p.r,
                     [k |-> "if", p |-> th.ctl.p.p, q |-> th.ctl.p.q, next |-> th.ctl.k]))

\* a closure that takes the branches the other way round
If_cont_flipped(th, sh) ==
    IF th.ctl.v.b
    THEN Go(th, sh, CallP(th.ctl.k.q, th.ctl.k.next))
    ELSE Go(th, sh, CallP(th.ctl.k.p, th.ctl.k.next))

If_cont(th, sh) ==
    IF th.ctl.v.b
    THEN Go(th, sh, CallP(th.ctl.k.p, th.ctl.k.next))
    ELSE Go(th, sh, CallP(th.ctl.k.q, th.ctl.k.next))

\* the tail continuation of execute_process / execute_process_par
Result_cont(th, sh) == Go(th, [sh EXCEPT !.result = Some(th.ctl.v)], Ret)

(***************************************************************************)
(* process.rs: ProcessMut::call_mut                                        *)
(***************************************************************************)
\* Value::call_mut
Value_call_mut(th, sh) == Go(th, sh, CallK(th.ctl.k, PV(th.ctl.p, th.ctl.p.v)))

\* Map::call_mut and its closure
Map_call_mut(th, sh) ==
    Go(th, sh, CallPM(th.ctl.p.p, [k |-> "map_mut", f |-> th.ctl.p.f, next |-> th.ctl.k]))

Map_cont_mut(th, sh) ==
    LET r == ApplyF(th.ctl.k.f, th.ctl.v.v, sh.mem)
    IN  Go(th, [sh EXCEPT !.mem = r.mem],
           CallK(th.ctl.k.next, PV(map(th.ctl.v.p, th.ctl.k.f), r.v)))

\* Then::call_mut and its two closures
Then_call_mut(th, sh) ==
    Go(th, sh, CallPM(th.ctl.p.p, [k |-> "then_mut", q |-> th.ctl.p.q, next |-> th.ctl.k]))

Then_cont_mut(th, sh) ==
    Go(th, sh, CallPM(th.ctl.k.q, [k |-> "then_mut2", p |-> th.ctl.v.p, next |-> th.ctl.k.next]))

Then_cont_mut2(th, sh) ==
    Go(th, sh, CallK(th.ctl.k.next, PV(then(th.ctl.k.p, th.ctl.v.p), th.ctl.v.v)))

\* a pause whose rebuilt process has lost the pause
Pause_call_mut_once(th, sh) ==
    Go(th,
       on_next_instant(sh, Entry(BoxCallMut(th.ctl.p.p, th.ctl.k), sh, th, "", 0)),
       Ret)

\* Pause::call_mut
Pause_call_mut(th, sh) ==
    Go(th,
       on_next_instant(sh, Entry(BoxCallMut(th.ctl.p.p, CMap(th.ctl.k, [fn |-> "pause"])),
                                 sh, th, "", 0)),
       Ret)

\* If::call_mut and its closure
If_call_mut(th, sh) ==
    Go(th, sh, CallPM(th.ctl.p.r,
                      [k |-> "if_mut", p |-> th.ctl.p.p, q |-> th.ctl.p.q, next |-> th.ctl.k]))

If_cont_mut(th, sh) ==
    IF th.ctl.v.v.b
    THEN Go(th, sh, CallPM(th.ctl.k.p,
                           CMap(th.ctl.k.next, [fn |-> "if_p", r |-> th.ctl.v.p, q |-> th.ctl.k.q])))
    ELSE Go(th, sh, CallPM(th.ctl.k.q,
                           CMap(th.ctl.k.next, [fn |-> "if_q", r |-> th.ctl.v.p, p |-> th.ctl.k.p])))

(***************************************************************************)
(* continuation.rs                                                         *)
(***************************************************************************)
\* the closures the combinators hand to Continuation::map: each rebuilds the
\* combinator around the fresh sub-process
ApplyCF(f, x) ==
    CASE f.fn = "pause" -> PV(pause(x.p), x.v)
      [] f.fn = "if_p" -> PV(if_else(f.r, x.p, f.q), x.v)
      [] f.fn = "if_q" -> PV(if_else(f.r, f.p, x.p), x.v)
      [] f.fn = "seven" -> IntV(7)
      [] OTHER -> x

\* Map::call of continuation.rs
CMap_call(th, sh) == Go(th, sh, CallK(th.ctl.k.next, ApplyCF(th.ctl.k.f, th.ctl.v)))

\* Pause::call of continuation.rs
CPause_call(th, sh) ==
    Go(th,
       [on_next_instant(sh, Entry(Deliver(th.ctl.k.c, th.ctl.v), sh, th,
                                  "cpause_run", sh.nid))
           EXCEPT !.nid = @ + 1,
                  !.hist = @ \cup {Ev("cpause", 0, sh, th, 0, sh.nid)}],
       Ret)

\* tests.rs, test_continuation: |run, ()| run.on_next_instant(cont_print)
cont_wait(th, sh) ==
    Go(th, on_next_instant(sh, Entry([k |-> "cont_print"], sh, th, "", 0)), Ret)

\* tests.rs, test_continuation: |_run, ()| *nn.lock().unwrap() = 42
cont_print(th, sh) == Go(th, [sh EXCEPT !.mem.n = 42], Ret)

\* a continuation that adds the value it is called with to n
cont_add(th, sh) == Go(th, [sh EXCEPT !.mem.n = @ + th.ctl.v.n], Ret)

\* the boxed closures |run, _| p.call(run, next) and |run, _| p.call_mut(run, next)
BoxCall_call(th, sh) == Go(th, sh, CallP(th.ctl.k.p, th.ctl.k.next))
BoxCallMut_call(th, sh) == Go(th, sh, CallPM(th.ctl.k.p, th.ctl.k.next))
\* the boxed closure |run, ()| c.call_box(run, value)
Deliver_call(th, sh) == Go(th, sh, CallK(th.ctl.k.c, th.ctl.k.v))

(***************************************************************************)
(* signal/pure_signal.rs and signal/value_signal.rs                        *)
(*                                                                         *)
(* A signal operation locks the signal's mutex: when the thread already    *)
(* holds it the lock() never returns (Stuck); a mutex held by another      *)
(* thread disables the step (see Blocked).  Most operations release the    *)
(* mutex within the step; test_present and its end-of-instant hook call    *)
(* continuations while they hold it, which the owner field records.        *)
(***************************************************************************)
SelfLocked(th, sh, s) == sh.sig[s].owner = th.id

\* the continuations parked in a Vec, in the order pop() returns them
Popped(list) == Reverse(list)

WokenEntries(list, sh, th, ge) ==
    [i \in 1..Len(list) |-> Entry(list[i].c, sh, th, ge, list[i].id)]

TestedEntries(list, sh, th) ==
    [i \in 1..Len(list) |-> Entry(Deliver(list[i].c, BoolV(TRUE)), sh, th, "", 0)]

\* the first block of emit with the woken continuations handed to the next
\* instant instead of the current one (a variant that wakes one instant late)
emit_flush_next_instant(th, sh, s, kind, v) ==
    LET g == sh.sig[s]
        woken == Popped(g.callbacks)
        tested == Popped(g.waiting_present)
    IN  [sh EXCEPT
            !.next_current_instant =
                @ \o WokenEntries(woken, sh, th, "aimm_run") \o TestedEntries(tested, sh, th),
            !.sig[s] = [@ EXCEPT !.callbacks = <<>>, !.waiting_present = <<>>,
                                 !.status = TRUE,
                                 !.current_value =
                                     CASE kind = "v" -> gather(@, v)
                                       [] kind = "uc" -> gather_push(@, v)
                                       [] OTHER -> @],
            !.nid = @ + 1,
            !.hist = @ \cup {Ev("emit", s, sh, th, v, sh.nid)}
                       \cup {Ev("aimm_wake", s, sh, th, 0, woken[i].id) : i \in 1..Len(woken)}
                       \cup {Ev("present_res", s, sh, th, 1, tested[i].id) :
                                i \in 1..Len(tested)}]

\* PSignalRuntimeRef::emit / VSignalRuntimeRef::emit, first block: flush
\* callbacks and waiting_present to the current instant, gather, set status
emit_flush(th, sh, s, kind, v) ==
    LET g == sh.sig[s]
        woken == Popped(g.callbacks)
        tested == Popped(g.waiting_present)
    IN  [sh EXCEPT
            !.current_instant =
                @ \o WokenEntries(woken, sh, th, "aimm_run") \o TestedEntries(tested, sh, th),
            !.sig[s] = [@ EXCEPT !.callbacks = <<>>, !.waiting_present = <<>>,
                                 !.status = TRUE,
                                 !.current_value =
                                     CASE kind = "v" -> gather(@, v)
                                       [] kind = "uc" -> gather_push(@, v)
                                       [] OTHER -> @],
            !.nid = @ + 1,
            !.hist = @ \cup {Ev("emit", s, sh, th, v, sh.nid)}
                       \cup {Ev("aimm_wake", s, sh, th, 0, woken[i].id) : i \in 1..Len(woken)}
                       \cup {Ev("present_res", s, sh, th, 1, tested[i].id) :
                                i \in 1..Len(tested)}]

\* ..SignalRuntimeRef::emit, first block; the step that follows registers
\* the end-of-instant hook and then calls `after` with `v`
emit(th, sh, s, kind, v, after, av) ==
    IF SelfLocked(th, sh, s)
    THEN Go(th, sh, Stuck)
    ELSE Go(th, emit_flush(th, sh, s, kind, v),
            [m |-> "emit2", s |-> s, kind |-> kind, k |-> after, v |-> av])

\* ..SignalRuntimeRef::emit, second block: on_end_of_instant(hook)
emit_2(th, sh) ==
    LET hook == CASE th.ctl.kind = "v" -> [k |-> "hook_value", s |-> th.ctl.s]
                  [] th.ctl.kind = "uc" -> [k |-> "hook_uc", s |-> th.ctl.s]
                  [] th.ctl.kind = "up" -> [k |-> "hook_up", s |-> th.ctl.s]
                  [] OTHER -> [k |-> "hook_reset", s |-> th.ctl.s]
    IN  Go(th, on_end_of_instant(sh, Entry(hook, sh, th, "", 0)),
           CallK(th.ctl.k, th.ctl.v))

\* the end-of-instant hook of PSignalRuntimeRef::emit
hook_reset(th, sh) ==
    LET s == th.ctl.k.s
    IN  IF SelfLocked(th, sh, s)
        THEN Go(th, sh, Stuck)
        ELSE Go(th, [sh EXCEPT !.sig[s].status = FALSE], Ret)

\* the end-of-instant hook of VSignalRuntimeRef::emit
hook_value(th, sh) ==
    LET s == th.ctl.k.s
        g == sh.sig[s]
        served == Popped(g.waiting_await)
        entries == [i \in 1..Len(served) |->
                       Entry(Deliver(served[i].c, IntV(g.current_value)),
                             sh, th, "await_run", served[i].id)]
    IN  IF SelfLocked(th, sh, s)
        THEN Go(th, sh, Stuck)
        ELSE Go(th,
                [sh EXCEPT
                    !.current_instant = @ \o entries,
                    !.sig[s] = [@ EXCEPT !.waiting_await = <<>>,
                                         !.current_value = g.default_value,
                                         !.status = FALSE],
                    !.hist = @ \cup {Ev("await_res", s, sh, th, g.current_value, served[i].id) :
                                        i \in 1..Len(served)}],
                Ret)

\* the end-of-instant hook of UCSignalRuntimeRef::emit: the value and the
\* waiting continuation are taken with std::mem::swap
hook_uc(th, sh) ==
    LET s == th.ctl.k.s
        g == sh.sig[s]
        prev_value == ListV([i \in DOMAIN g.current_value |-> IntV(g.current_value[i])])
        entries == [i \in DOMAIN g.waiting_await |->
                       Entry(Deliver(g.waiting_await[i].c, prev_value),
                             sh, th, "uc_await_run", g.waiting_await[i].id)]
    IN  IF SelfLocked(th, sh, s)
        THEN Go(th, sh, Stuck)
        ELSE Go(th,
                [sh EXCEPT
                    !.current_instant = @ \o entries,
                    !.sig[s] = [@ EXCEPT !.waiting_await = <<>>,
                                         !.current_value = g.default_value,
                                         !.status = FALSE],
                    !.hist = @ \cup {Ev("uc_await_res", s, sh, th, Len(g.current_value),
                                        g.waiting_await[i].id) : i \in DOMAIN g.waiting_await}],
                Ret)

\* an on_signal that parks the continuation whatever the status
on_signal_park(th, sh, s, c) ==
    IF SelfLocked(th, sh, s)
    THEN Go(th, sh, Stuck)
    ELSE Go(th,
            [sh EXCEPT !.sig[s].callbacks = Append(@, [c |-> c, id |-> sh.nid]),
                       !.nid = @ + 1,
                       !.hist = @ \cup {Ev("aimm", s, sh, th, 0, sh.nid)}],
            Ret)

\* PSignalRuntimeRef::on_signal / VSignalRuntimeRef::on_signal
on_signal(th, sh, s, c) ==
    IF SelfLocked(th, sh, s)
    THEN Go(th, sh, Stuck)
    ELSE IF sh.sig[s].status
    THEN Go(th,
            [on_current_instant(sh, Entry(c, sh, th, "aimm_run", sh.nid)) EXCEPT
                !.nid = @ + 1,
                !.hist = @ \cup {Ev("aimm", s, sh, th, 1, sh.nid)}],
            Ret)
    ELSE Go(th,
            [sh EXCEPT !.sig[s].callbacks = Append(@, [c |-> c, id |-> sh.nid]),
                       !.nid = @ + 1,
                       !.hist = @ \cup {Ev("aimm", s, sh, th, 0, sh.nid)}],
            Ret)

\* VSignalRuntimeRef::await
await(th, sh, s, c) ==
    IF SelfLocked(th, sh, s)
    THEN Go(th, sh, Stuck)
    ELSE Go(th,
            [sh EXCEPT !.sig[s].waiting_await = Append(@, [c |-> c, id |-> sh.nid]),
                       !.nid = @ + 1,
                       !.hist = @ \cup {Ev("await", s, sh, th, 0, sh.nid)}],
            Ret)

\* ..SignalRuntimeRef::test_present: the continuation is called with true
\* under the lock, or parked with a hook that will hand it false
test_present(th, sh, s, c) ==
    IF SelfLocked(th, sh, s)
    THEN Go(th, sh, Stuck)
    ELSE IF sh.sig[s].status
    THEN [th |-> [th EXCEPT !.ctl = CallK(c, BoolV(TRUE)),
                            !.stack = Append(@, [f |-> "unlock", s |-> s])],
          sh |-> [sh EXCEPT !.sig[s].owner = th.id,
                            !.nid = @ + 1,
                            !.hist = @ \cup {Ev("present", s, sh, th, 0, sh.nid),
                                             Ev("present_res", s, sh, th, 1, sh.nid)}]]
    ELSE LET hook == Entry([k |-> "hook_present", s |-> s], sh, th, "", 0)
             sh1 == IF sh.sig[s].waiting_present = <<>>
                    THEN on_end_of_instant(sh, hook)
                    ELSE sh
         IN  Go(th,
                [sh1 EXCEPT !.sig[s].waiting_present = Append(@, [c |-> c, id |-> sh.nid]),
                            !.nid = @ + 1,
                            !.hist = @ \cup {Ev("present", s, sh, th, 0, sh.nid)}],
                Ret)

\* the end-of-instant hook of test_present: takes the lock and keeps it
\* while it hands false to every parked continuation
hook_present(th, sh) ==
    LET s == th.ctl.k.s
    IN  IF SelfLocked(th, sh, s)
        THEN Go(th, sh, Stuck)
        ELSE [th |-> [th EXCEPT !.ctl = Ret,
                                !.stack = Append(@, [f |-> "hook_present", s |-> s])],
              sh |-> [sh EXCEPT !.sig[s].owner = th.id]]

\* the loop of the hook of test_present: the next parked continuation, or
\* the end of the hook, which drops the lock
hook_present_next(th, sh) ==
    LET s == Last(th.stack).s
        list == sh.sig[s].waiting_present
    IN  IF list # <<>>
        THEN Go(th,
                [sh EXCEPT !.sig[s].waiting_present = Front(list),
                           !.hist = @ \cup {Ev("present_res", s, sh, th, 0, Last(list).id)}],
                CallK(Last(list).c, BoolV(FALSE)))
        ELSE [th |-> [th EXCEPT !.stack = Front(@)],
              sh |-> [sh EXCEPT !.sig[s].owner = 0]]

\* the MutexGuard of test_present goes out of scope
unlock(th, sh) ==
    [th |-> [th EXCEPT !.stack = Front(@)],
     sh |-> [sh EXCEPT !.sig[Last(th.stack).s].owner = 0]]

\* PEmit::call / PEmit::call_mut
PEmit_call(th, sh) == emit(th, sh, th.ctl.p.s, "p", 0, th.ctl.k, Unit)
PEmit_call_mut(th, sh) == emit(th, sh, th.ctl.p.s, "p", 0, th.ctl.k, PV(th.ctl.p, Unit))

\* PAwaitImmediate::call / VAwaitImmediate::call
AwaitImmediate_call(th, sh) == on_signal(th, sh, th.ctl.p.s, th.ctl.k)

\* PPresent::call / VPresent::call
Present_call(th, sh) == test_present(th, sh, th.ctl.p.s, th.ctl.k)

\* PPresent::call_mut and its closure
Present_call_mut(th, sh) ==
    test_present(th, sh, th.ctl.p.s, [k |-> "present_mut", p |-> th.ctl.p, next |-> th.ctl.k])

Present_cont_mut(th, sh) == Go(th, sh, CallK(th.ctl.k.next, PV(th.ctl.k.p, th.ctl.v)))

\* VEmit::call and its closure
VEmit_call(th, sh) ==
    Go(th, sh, CallP(th.ctl.p.p, [k |-> "vemit", s |-> th.ctl.p.s, next |-> th.ctl.k]))

VEmit_cont(th, sh) == emit(th, sh, th.ctl.k.s, "v", th.ctl.v.n, th.ctl.k.next, th.ctl.v)

\* UPSignalRuntimeRef::emit, first block: the value is stored before the
\* callbacks are popped, each of them is handed a clone of it
up_emit(th, sh, s, v, after) ==
    LET g == sh.sig[s]
        woken == Popped(g.callbacks)
        tested == Popped(g.waiting_present)
        entries == [i \in 1..Len(woken) |->
                       Entry(Deliver(woken[i].c, IntV(v)), sh, th, "up_run", woken[i].id)]
    IN  IF SelfLocked(th, sh, s)
        THEN Go(th, sh, Stuck)
        ELSE Go(th,
                [sh EXCEPT
                    !.current_instant = @ \o entries \o TestedEntries(tested, sh, th),
                    !.sig[s] = [@ EXCEPT !.callbacks = <<>>, !.waiting_present = <<>>,
                                         !.status = TRUE, !.current_value = v],
                    !.nid = @ + 1,
                    !.hist = @ \cup {Ev("up_emit", s, sh, th, v, sh.nid)}
                               \cup {Ev("up_res", s, sh, th, v, woken[i].id) :
                                        i \in 1..Len(woken)}],
                [m |-> "emit2", s |-> s, kind |-> "up", k |-> after, v |-> Unit])

\* the end-of-instant hook of UPSignalRuntimeRef::emit
hook_up(th, sh) ==
    LET s == th.ctl.k.s
    IN  IF SelfLocked(th, sh, s)
        THEN Go(th, sh, Stuck)
        ELSE Go(th,
                [sh EXCEPT !.sig[s].current_value = sh.sig[s].default_value,
                           !.sig[s].status = FALSE],
                Ret)

\* UPSignalRuntimeRef::on_signal
up_on_signal(th, sh, s, c) ==
    IF SelfLocked(th, sh, s)
    THEN Go(th, sh, Stuck)
    ELSE IF sh.sig[s].status
    THEN Go(th,
            [on_current_instant(sh, Entry(Deliver(c, IntV(sh.sig[s].current_value)),
                                          sh, th, "up_run", sh.nid)) EXCEPT
                !.nid = @ + 1,
                !.hist = @ \cup {Ev("up_aimm", s, sh, th, 1, sh.nid),
                                 Ev("up_res", s, sh, th, sh.sig[s].current_value, sh.nid)}],
            Ret)
    ELSE Go(th,
            [sh EXCEPT !.sig[s].callbacks = Append(@, [c |-> c, id |-> sh.nid]),
                       !.nid = @ + 1,
                       !.hist = @ \cup {Ev("up_aimm", s, sh, th, 0, sh.nid)}],
            Ret)

\* UPEmit::call and its closure
UPEmit_call(th, sh) ==
    Go(th, sh, CallP(th.ctl.p.p, [k |-> "upemit", s |-> th.ctl.p.s, next |-> th.ctl.k]))

UPEmit_cont(th, sh) == up_emit(th, sh, th.ctl.k.s, th.ctl.v.n, th.ctl.k.next)

\* UPAwaitImmediate::call
UPAwaitImmediate_call(th, sh) == up_on_signal(th, sh, th.ctl.p.s, th.ctl.k)

\* UCEmit::call and its closure
UCEmit_call(th, sh) ==
    Go(th, sh, CallP(th.ctl.p.p, [k |-> "ucemit", s |-> th.ctl.p.s, next |-> th.ctl.k]))

UCEmit_cont(th, sh) == emit(th, sh, th.ctl.k.s, "uc", th.ctl.v.n, th.ctl.k.next, Unit)

\* the mutex of a signal whose guard was dropped by a panic: every later
\* lock().unwrap() panics
Poisoned == -1

\* an await that overwrites the waiting continuation
UCAwait_call_replace(th, sh) ==
    LET s == th.ctl.p.s
        pending == IF sh.sig[s].waiting_await # <<>> THEN 1 ELSE 0
    IN  Go(th,
           [sh EXCEPT !.sig[s].waiting_await = <<[c |-> th.ctl.k, id |-> sh.nid]>>,
                      !.nid = @ + 1,
                      !.hist = @ \cup {Ev("uc_await", s, sh, th, pending, sh.nid)}],
           Ret)

\* UCAwait::call, UCSignalRuntimeRef::await: waiting_await, an Option, is
\* the sequence of at most one continuation; unreachable!() panics with the
\* guard of the signal alive
UCAwait_call(th, sh) ==
    LET s == th.ctl.p.s
    IN  IF SelfLocked(th, sh, s)
        THEN Go(th, sh, Stuck)
        ELSE IF sh.sig[s].waiting_await # <<>>
        THEN Go(th,
                [sh EXCEPT !.sig[s].owner = Poisoned,
                           !.nid = @ + 1,
                           !.hist = @ \cup {Ev("uc_await", s, sh, th, 1, sh.nid),
                                            Ev("unreachable", s, sh, th, 0, sh.nid)}],
                Stuck)
        ELSE Go(th,
                [sh EXCEPT !.sig[s].waiting_await = <<[c |-> th.ctl.k, id |-> sh.nid]>>,
                           !.nid = @ + 1,
                           !.hist = @ \cup {Ev("uc_await", s, sh, th, 0, sh.nid)}],
                Ret)

\* VAwait::call
VAwait_call(th, sh) == await(th, sh, th.ctl.p.s, th.ctl.k)

(***************************************************************************)
(* One step of a thread                                                    *)
(***************************************************************************)
Step(th, sh) ==
    LET c == th.ctl
    IN  CASE c.m = "P" ->
               (CASE c.p.op = "value" -> Value_call(th, sh)
                  [] c.p.op = "map" -> Map_call(th, sh)
                  [] c.p.op = "then" -> Then_call(th, sh)
                  [] c.p.op = "flatten" -> Flatten_call(th, sh)
                  [] c.p.op = "pause" -> Pause_call(th, sh)
                  [] c.p.op = "join" -> Join_call(th, sh)
                  [] c.p.op = "multi_join" -> MultiJoin_call(th, sh)
                  [] c.p.op = "while" -> While_call(th, sh)
                  [] c.p.op = "if" -> If_call(th, sh)
                  [] c.p.op = "pemit" -> PEmit_call(th, sh)
                  [] c.p.op \in {"pawait_immediate", "vawait_immediate"} ->
                        AwaitImmediate_call(th, sh)
                  [] c.p.op \in {"ppresent", "vpresent"} -> Present_call(th, sh)
                  [] c.p.op = "vemit" -> VEmit_call(th, sh)
                  [] c.p.op = "vawait" -> VAwait_call(th, sh)
                  [] c.p.op = "ucemit" -> UCEmit_call(th, sh)
                  [] c.p.op = "ucawait" -> UCAwait_call(th, sh)
                  [] c.p.op = "upemit" -> UPEmit_call(th, sh)
                  [] c.p.op = "upaimm" -> UPAwaitImmediate_call(th, sh))
          [] c.m = "PM" ->
               (CASE c.p.op = "value" -> Value_call_mut(th, sh)
                  [] c.p.op = "map" -> Map_call_mut(th, sh)
                  [] c.p.op = "then" -> Then_call_mut(th, sh)
                  [] c.p.op = "pause" -> Pause_call_mut(th, sh)
                  [] c.p.op = "if" -> If_call_mut(th, sh)
                  [] c.p.op = "pemit" -> PEmit_call_mut(th, sh)
                  [] c.p.op \in {"ppresent", "vpresent"} -> Present_call_mut(th, sh))
          [] c.m = "K" ->
               (CASE c.k.k = "result" -> Result_cont(th, sh)
                  [] c.k.k = "map" -> Map_cont(th, sh)
                  [] c.k.k = "then" -> Then_cont(th, sh)
                  [] c.k.k = "flatten" -> Flatten_cont(th, sh)
                  [] c.k.k = "join" -> Join_cont(th, sh)
                  [] c.k.k = "multi_join" -> MultiJoin_cont(th, sh)
                  [] c.k.k = "while" -> While_cont(th, sh)
                  [] c.k.k = "if" -> If_cont(th, sh)
                  [] c.k.k = "map_mut" -> Map_cont_mut(th, sh)
                  [] c.k.k = "then_mut" -> Then_cont_mut(th, sh)
                  [] c.k.k = "then_mut2" -> Then_cont_mut2(th, sh)
                  [] c.k.k = "if_mut" -> If_cont_mut(th, sh)
                  [] c.k.k = "cmap" -> CMap_call(th, sh)
                  [] c.k.k = "cpause" -> CPause_call(th, sh)
                  [] c.k.k = "cont_wait" -> cont_wait(th, sh)
                  [] c.k.k = "cont_print" -> cont_print(th, sh)
                  [] c.k.k = "cont_add" -> cont_add(th, sh)
                  [] c.k.k = "call" -> BoxCall_call(th, sh)
                  [] c.k.k = "call_mut" -> BoxCallMut_call(th, sh)
                  [] c.k.k = "deliver" -> Deliver_call(th, sh)
                  [] c.k.k = "present_mut" -> Present_cont_mut(th, sh)
                  [] c.k.k = "vemit" -> VEmit_cont(th, sh)
                  [] c.k.k = "hook_reset" -> hook_reset(th, sh)
                  [] c.k.k = "hook_value" -> hook_value(th, sh)
                  [] c.k.k = "ucemit" -> UCEmit_cont(th, sh)
                  [] c.k.k = "hook_uc" -> hook_uc(th, sh)
                  [] c.k.k = "upemit" -> UPEmit_cont(th, sh)
                  [] c.k.k = "hook_up" -> hook_up(th, sh)
                  [] c.k.k = "hook_present" -> hook_present(th, sh))
          [] c.m = "emit2" -> emit_2(th, sh)
          [] c.m = "join2" -> Join_call_2(th, sh)
          [] c.m = "multi_join" -> MultiJoin_loop(th, sh)
          [] c.m = "ret" ->
               IF Last(th.stack).f = "unlock"
               THEN unlock(th, sh)
               ELSE hook_present_next(th, sh)

\* the call has returned to the runtime, or never will
Returned(th) == th.ctl.m = "ret" /\ th.stack = <<>>
IsStuck(th) == th.ctl.m = "stuck"

\* a continuation run to completion by the thread that popped it
RECURSIVE Run(_, _)
Run(th, sh) ==
    IF Returned(th) \/ IsStuck(th)
    THEN [th |-> th, sh |-> sh]
    ELSE LET r == Step(th, sh) IN Run(r.th, r.sh)

\* Continuation::call_box on a popped continuation, by thread `id`
Invoke(e, id, ph, sh) ==
    LET th == [id |-> id, ctl |-> CallK(e.c, Unit), stack |-> <<>>, ph |-> ph]
        run == [e |-> "run", i |-> sh.inst, ph |-> ph, ri |-> e.ri, rp |-> e.rp, q |-> e.q]
    IN  [th |-> th,
         sh |-> [sh EXCEPT !.hist = @ \cup {run} \cup
                              IF e.ge = "" THEN {}
                              ELSE {Ev(e.ge, 0, sh, th, 0, e.gid)}]]

Shared ==
    [current_instant |-> current_instant, end_instant |-> end_instant,
     next_current_instant |-> next_current_instant,
     sig |-> sig, jp |-> jp, mem |-> mem, result |-> result,
     hist |-> hist, nid |-> nid, inst |-> inst]

Install(sh) ==
    /\ current_instant' = sh.current_instant
    /\ end_instant' = sh.end_instant
    /\ next_current_instant' = sh.next_current_instant
    /\ sig' = sh.sig
    /\ jp' = sh.jp
    /\ mem' = sh.mem
    /\ result' = sh.result
    /\ hist' = sh.hist
    /\ nid' = sh.nid

\* the tests that hand continuations to a runtime and call instant()
\* themselves, without execute_process
RawPrograms ==
    {"continuation", "continuation_pause", "continuation_pause_value",
     "continuation_pause_end"}

\* the programs that register their continuation with on_end_of_instant
EndPrograms == {"continuation_pause_end"}


\* what the program registers with on_current_instant before the first instant
InitialContinuation(name) ==
    CASE name = "continuation" -> [k |-> "cont_wait"]
      [] name = "continuation_pause" -> CPause([k |-> "cont_print"])
      [] name = "continuation_pause_end" -> CPause([k |-> "cont_print"])
      [] name = "continuation_pause_value" ->
            CMap(CPause([k |-> "cont_add"]), [fn |-> "seven"])
      [] OTHER -> BoxCall(Graph(name), [k |-> "result"])

\* the registration made before the first instant
InitialEntry(name) ==
    [c |-> InitialContinuation(name), ri |-> 1, rp |-> "init",
     q |-> IF name \in EndPrograms THEN "end" ELSE "current", ge |-> "", gid |-> 0]

Idle == [id |-> 0, ctl |-> Ret, stack |-> <<>>, ph |-> "cur", busy |-> FALSE]

\* execute_process / execute_process_par up to runtime.execute()
InitCommon ==
    /\ prog \in Programs \cup RawPrograms
    /\ inst = 1
    /\ current_instant = IF prog \in EndPrograms THEN <<>> ELSE <<InitialEntry(prog)>>
    /\ end_instant = IF prog \in EndPrograms THEN <<InitialEntry(prog)>> ELSE <<>>
    /\ next_current_instant = <<>>
    /\ next_end_instant = <<>>
    /\ todo = <<>>
    /\ count = 0
    /\ waiting = FALSE
    /\ workers = [w \in 1..NWorkers |-> Idle]
    /\ sig = [s \in Signals |-> NewSignal(prog, s)]
    /\ jp = <<>>
    /\ mem = [n |-> 0, m |-> 0]
    /\ result = None
    /\ hist = {}
    /\ nid = 1

(***************************************************************************)
(* runtime/sequential_runtime.rs                                           *)
(***************************************************************************)
InitSeq == InitCommon /\ rt = "seq" /\ pc = "current"

ParUnchanged == UNCHANGED <<todo, count, waiting, workers>>

\* instant(): while let Some(cont) = self.current_instant.pop() { cont.call_box }
SeqCallCurrent ==
    /\ rt = "seq" /\ pc = "current" /\ current_instant # <<>>
    /\ LET e == Last(current_instant)
           i == Invoke(e, 1, "cur", [Shared EXCEPT !.current_instant = Front(@)])
           r == Run(i.th, i.sh)
       IN  /\ Install(r.sh)
           /\ pc' = IF IsStuck(r.th) THEN "stuck" ELSE "current"
    /\ UNCHANGED <<prog, rt, inst, next_end_instant>>
    /\ ParUnchanged

\* instant(): the two std::mem::swap
SeqSwap ==
    /\ rt = "seq" /\ pc = "current" /\ current_instant = <<>>
    /\ current_instant' = next_current_instant
    /\ next_current_instant' = current_instant
    /\ end_instant' = next_end_instant
    /\ next_end_instant' = end_instant
    /\ pc' = "end"
    /\ UNCHANGED <<prog, rt, inst, sig, jp, mem, result, hist, nid>>
    /\ ParUnchanged

\* instant(): while let Some(cont) = self.next_end_instant.pop() { cont.call_box }
SeqCallEnd ==
    /\ rt = "seq" /\ pc = "end" /\ next_end_instant # <<>>
    /\ LET e == Last(next_end_instant)
           i == Invoke(e, 1, "end", Shared)
           r == Run(i.th, i.sh)
       IN  /\ Install(r.sh)
           /\ pc' = IF IsStuck(r.th) THEN "stuck" ELSE "end"
    /\ next_end_instant' = Front(next_end_instant)
    /\ UNCHANGED <<prog, rt, inst>>
    /\ ParUnchanged

\* the value instant() returns
SeqMore == current_instant # <<>> \/ end_instant # <<>> \/ next_end_instant # <<>>

\* instant() returns, and execute() calls it again or returns
SeqInstantReturn ==
    /\ rt = "seq" /\ pc = "end" /\ next_end_instant = <<>>
    /\ IF SeqMore
       THEN pc' = "current" /\ inst' = inst + 1
       ELSE pc' = "returned" /\ inst' = inst
    /\ UNCHANGED <<prog, rt, current_instant, end_instant, next_current_instant,
                   next_end_instant, sig, jp, mem, result, hist, nid>>
    /\ ParUnchanged

\* execute_process after runtime.execute(): the result, or the panic
ExecuteReturn ==
    /\ pc = "returned" /\ prog \notin RawPrograms
    /\ pc' = IF result.t = "some" THEN "done" ELSE "panic"
    /\ UNCHANGED <<prog, rt, inst, current_instant, end_instant, next_current_instant,
                   next_end_instant, sig, jp, mem, result, hist, nid>>
    /\ ParUnchanged

NextSeq ==
    \/ SeqCallCurrent
    \/ SeqSwap
    \/ SeqCallEnd
    \/ SeqInstantReturn
    \/ ExecuteReturn

SpecSeq == InitSeq /\ [][NextSeq]_vars

(***************************************************************************)
(* runtime/parallel_runtime.rs                                             *)
(*                                                                         *)
(* The thread that called execute() runs instant() (pc), the workers run   *)
(* the loop of execute().  TodoQueue.count is a Mutex<i32>: push, done and *)
(* is_active hold it for one step; the first wait loop of instant() holds  *)
(* it from the test of *ct to the wait, which releases it.                 *)
(***************************************************************************)
InitPar == InitCommon /\ rt = "par" /\ pc = "assert"

OrchUnchanged == UNCHANGED <<prog, rt, inst, next_end_instant, sig, jp, mem, result, hist, nid>>

\* a push that leaves the counter alone
TodoPush_nocount(q, ph) ==
    /\ todo' = Append(todo, [e |-> Head(q), tp |-> ph])
    /\ count' = count

\* TodoQueue::push by the orchestrator, of the head of queue `q`; tp is the
\* phase in which the entry was handed to the workers (ghost)
TodoPush(q, ph) ==
    /\ todo' = Append(todo, [e |-> Head(q), tp |-> ph])
    /\ count' = count + 1

\* instant(): assert!(!self.todo.is_active())
ParAssert ==
    /\ rt = "par" /\ pc = "assert"
    /\ pc' = IF count > 0 THEN "assert_failed" ELSE "transfer"
    /\ UNCHANGED <<current_instant, end_instant, next_current_instant, todo, count,
                   waiting, workers>>
    /\ OrchUnchanged

\* instant(): while !current_instant.is_empty() { todo.push(current_instant.pop()) }
ParTransferCurrent ==
    /\ rt = "par" /\ pc = "transfer"
    /\ IF current_instant # <<>>
       THEN /\ TodoPush(current_instant, "cur")
            /\ current_instant' = Tail(current_instant)
            /\ pc' = pc
       ELSE /\ pc' = "lock"
            /\ UNCHANGED <<todo, count, current_instant>>
    /\ UNCHANGED <<end_instant, next_current_instant, waiting, workers>>
    /\ OrchUnchanged

\* what a second lock() of todo.count by its holder can do: block forever
\* or panic; it does not return
Relock == {"deadlock", "relock_panic"}

\* a first wait loop that does not wait for the counter to reach 0
ParWaitCurrent_nowait ==
    /\ rt = "par" /\ pc = "lock"
    /\ pc' = "transfer_end" /\ waiting' = waiting
    /\ UNCHANGED <<current_instant, end_instant, next_current_instant, todo, count, workers>>
    /\ OrchUnchanged

\* instant(): let mut ct = todo.count.lock(); while *ct > 0 { while
\* !current_instant.is_empty() { todo.push(..) } ct = notify.wait(ct) }
\* todo.push locks todo.count, which this thread holds
ParWaitCurrent ==
    /\ rt = "par" /\ pc = "lock"
    /\ IF count > 0
       THEN IF current_instant # <<>>
            THEN pc' \in Relock /\ waiting' = waiting
            ELSE pc' = "wait" /\ waiting' = TRUE
       ELSE pc' = "transfer_end" /\ waiting' = waiting
    /\ UNCHANGED <<current_instant, end_instant, next_current_instant, todo, count, workers>>
    /\ OrchUnchanged

\* Condvar::wait returns after the notify_one of TodoQueue::done
ParNotified ==
    /\ rt = "par" /\ pc \in {"wait", "wait_end"} /\ ~waiting
    /\ pc' = IF pc = "wait" THEN "lock" ELSE "lock_end"
    /\ UNCHANGED <<current_instant, end_instant, next_current_instant, todo, count,
                   waiting, workers>>
    /\ OrchUnchanged

\* Condvar::wait returns without a notification (a spurious wakeup)
ParSpuriousWake ==
    /\ rt = "par" /\ pc \in {"wait", "wait_end"} /\ waiting
    /\ pc' = IF pc = "wait" THEN "lock" ELSE "lock_end"
    /\ waiting' = FALSE
    /\ UNCHANGED <<current_instant, end_instant, next_current_instant, todo, count, workers>>
    /\ OrchUnchanged

\* instant(): while !end_instant.is_empty() { todo.push(end_instant.pop()) }
ParTransferEnd ==
    /\ rt = "par" /\ pc = "transfer_end"
    /\ IF end_instant # <<>>
       THEN /\ TodoPush(end_instant, "end")
            /\ end_instant' = Tail(end_instant)
            /\ pc' = pc
       ELSE /\ pc' = "promote"
            /\ UNCHANGED <<todo, count, end_instant>>
    /\ UNCHANGED <<current_instant, next_current_instant, waiting, workers>>
    /\ OrchUnchanged

\* instant(): while !next_current_instant.is_empty() {
\*     current_instant.push(next_current_instant.pop()) }
ParPromote ==
    /\ rt = "par" /\ pc = "promote"
    /\ IF next_current_instant # <<>>
       THEN /\ current_instant' = Append(current_instant, Head(next_current_instant))
            /\ next_current_instant' = Tail(next_current_instant)
            /\ pc' = pc
       ELSE /\ pc' = "lock_end"
            /\ UNCHANGED <<current_instant, next_current_instant>>
    /\ UNCHANGED <<end_instant, todo, count, waiting, workers>>
    /\ OrchUnchanged

\* a second wait loop that does not wait for the counter to reach 0
ParWaitEnd_nowait ==
    /\ rt = "par" /\ pc = "lock_end"
    /\ pc' = "return" /\ waiting' = waiting
    /\ UNCHANGED <<current_instant, end_instant, next_current_instant, todo, count, workers>>
    /\ OrchUnchanged

\* instant(): the second wait loop
ParWaitEnd ==
    /\ rt = "par" /\ pc = "lock_end"
    /\ IF count > 0
       THEN pc' = "wait_end" /\ waiting' = TRUE
       ELSE pc' = "return" /\ waiting' = waiting
    /\ UNCHANGED <<current_instant, end_instant, next_current_instant, todo, count, workers>>
    /\ OrchUnchanged

\* the value instant() returns
ParMore ==
    ~(current_instant = <<>> /\ end_instant = <<>> /\ next_current_instant = <<>>)

\* instant() returns, and execute() calls it again or returns
ParInstantReturn ==
    /\ rt = "par" /\ pc = "return"
    /\ IF ParMore
       THEN pc' = "assert" /\ inst' = inst + 1
       ELSE pc' = "returned" /\ inst' = inst
    /\ UNCHANGED <<prog, rt, current_instant, end_instant, next_current_instant,
                   next_end_instant, todo, count, waiting, workers, sig, jp, mem,
                   result, hist, nid>>

\* the step of a signal operation waits while another thread holds the mutex
LockOf(th) ==
    CASE th.ctl.m \in {"P", "PM"} ->
            IF th.ctl.p.op \in {"pemit", "pawait_immediate", "ppresent",
                                "vawait", "vawait_immediate", "vpresent", "ucawait",
                                "upaimm"}
            THEN th.ctl.p.s ELSE 0
      [] th.ctl.m = "K" ->
            IF th.ctl.k.k \in {"vemit", "hook_reset", "hook_value", "hook_present",
                               "ucemit", "hook_uc", "upemit", "hook_up"}
            THEN th.ctl.k.s ELSE 0
      [] OTHER -> 0

Blocked(th, sh) ==
    LockOf(th) # 0 /\ sh.sig[LockOf(th)].owner \notin {0, th.id}

\* worker: runtime.todo.pop() and the call_box of what it popped
WorkerPop(w) ==
    /\ rt = "par" /\ ~workers[w].busy /\ todo # <<>>
    /\ LET t == Head(todo)
           i == Invoke(t.e, w, t.tp, Shared)
       IN  /\ workers' = [workers EXCEPT ![w] =
                  [id |-> w, ctl |-> i.th.ctl, stack |-> <<>>, ph |-> t.tp, busy |-> TRUE]]
           /\ hist' = i.sh.hist
    /\ todo' = Tail(todo)
    /\ UNCHANGED <<prog, rt, pc, inst, current_instant, end_instant, next_current_instant,
                   next_end_instant, count, waiting, sig, jp, mem, result, nid>>

\* worker: one step of the continuation it is running
WorkerStep(w) ==
    /\ rt = "par" /\ workers[w].busy
    /\ ~Returned(workers[w]) /\ ~IsStuck(workers[w]) /\ ~Blocked(workers[w], Shared)
    /\ LET r == Step(workers[w], Shared)
       IN  /\ workers' = [workers EXCEPT ![w] = r.th]
           /\ Install(r.sh)
    /\ UNCHANGED <<prog, rt, pc, inst, next_end_instant, todo, count, waiting>>

\* worker: runtime.todo.done(), which needs the lock of todo.count: it is
\* held for ever after the deadlock of the orchestrator, and poisoned after
\* its panic, so that lock().unwrap() panics before the decrement
WorkerDone(w) ==
    /\ rt = "par" /\ workers[w].busy /\ Returned(workers[w])
    /\ pc \notin Relock
    /\ count' = count - 1
    /\ waiting' = FALSE
    /\ workers' = [workers EXCEPT ![w] = Idle]
    /\ UNCHANGED <<prog, rt, pc, inst, current_instant, end_instant, next_current_instant,
                   next_end_instant, todo, sig, jp, mem, result, hist, nid>>

NextPar ==
    \/ ParAssert
    \/ ParTransferCurrent
    \/ ParWaitCurrent
    \/ ParNotified
    \/ ParSpuriousWake
    \/ ParTransferEnd
    \/ ParPromote
    \/ ParWaitEnd
    \/ ParInstantReturn
    \/ ExecuteReturn
    \/ \E w \in 1..NWorkers : WorkerPop(w) \/ WorkerStep(w) \/ WorkerDone(w)

SpecPar == InitPar /\ [][NextPar]_vars

\* The program run on either runtime: execute_process (SequentialRuntime)
\* or execute_process_par (ParallelRuntime).
Init == InitSeq \/ InitPar
Next == NextSeq \/ NextPar
Spec == Init /\ [][Next]_vars

(***************************************************************************)
(* The history of signal operations (ghost)                                *)
(*                                                                         *)
(* hist holds one record per emit, per await_immediate ("aimm": v = 1 when *)
(* the status was present at the call, "aimm_wake" when an emit takes it   *)
(* out of callbacks, "aimm_run" when its continuation is run), per await   *)
(* ("await", "await_res" with the value handed over, "await_run") and per  *)
(* present ("present", "present_res" with v = 1 for true, 0 for false);    *)
(* i and ph are the instant and phase of the thread that did it.           *)
(***************************************************************************)
Events(e) == {x \in hist : x.e = e}

\* the instant an emit counts for: what a continuation of the end-of-instant
\* phase does belongs to the next instant
EmitInstant(x) == IF x.ph = "end" THEN x.i + 1 ELSE x.i

EmitsOf(s, i) == {x \in Events("emit") : x.s = s /\ EmitInstant(x) = i}

RECURSIVE Gathered(_, _)
\* gather folded over a set of emits, from the accumulator acc
Gathered(acc, S) ==
    IF S = {} THEN acc
    ELSE LET x == CHOOSE y \in S : TRUE IN Gathered(gather(acc, x.v), S \ {x})

\* execute() has returned to execute_process / execute_process_par
Finished == pc \in {"done", "panic"}

\* the second component of the pair the process graph returned
Awaited == result.v.b

(***************************************************************************)
(* Properties                                                              *)
(***************************************************************************)
\* the orchestrator is past the first wait loop of instant(): the
\* end-of-instant phase of the instant has begun
EndPhase == pc \in {"transfer_end", "promote", "lock_end", "wait_end", "return"}

\* the continuations waiting in current_instant that were registered during
\* the current phase of the running instant
LeftInCurrent ==
    {k \in DOMAIN current_instant :
        current_instant[k].ri = inst /\ current_instant[k].rp \in {"init", "cur"}}

\* C1: on the parallel runtime, when instant() leaves its first wait loop
\* and transfers end_instant into todo, the outstanding counter is 0 and no
\* continuation registered with on_current_instant during the current phase
\* of this instant is still waiting in current_instant: no end-of-instant
\* continuation starts before the whole current phase has completed.
C1_PhaseBarrier ==
    rt = "par" =>
        /\ (pc = "transfer_end" /\ todo = <<>> => count = 0)
        /\ (EndPhase => LeftInCurrent = {})

\* C2: on the parallel runtime the orchestrator never blocks forever inside
\* instant(): it never locks todo.count while it holds it, and the graph
\* join(value(15), value(1337)) returns (15, 1337) once execute() is over.
C2_InstantReturns ==
    rt = "par" =>
        /\ pc \notin Relock
        /\ (prog = "parallel" /\ Finished => result = Some(Pair(IntV(15), IntV(1337))))

\* C3: a present() initiated in the current phase of instant T resolves to
\* true only if an emit on its signal counts for T, and to false only in the
\* end-of-instant phase of T and only if no emit on its signal counts for T.
C3_PresentIffEmit ==
    \A p \in Events("present") : \A r \in Events("present_res") :
        (p.ph = "cur" /\ r.id = p.id) =>
            /\ (r.v = 1 => EmitsOf(p.s, p.i) # {})
            /\ (r.v = 0 => r.i = p.i /\ r.ph = "end" /\ EmitsOf(p.s, p.i) = {})

\* instant() has just been entered on the parallel runtime
InstantEntry == rt = "par" /\ pc = "assert"

\* C4: a signal that was not emitted for the instant that begins is absent
\* when the instant begins, and the graph of test_signal_present (LoopN
\* instants with an emit, 2 added to m in each) ends with m = 2 * LoopN.
C4_PresentOnlyInEmittingInstant ==
    /\ (InstantEntry /\ inst > 1 =>
            \A s \in Signals :
                sig[s].status /\ ~PresetStatus(prog, s) => EmitsOf(s, inst) # {})
    /\ (prog = "signal_present" /\ Finished =>
            result.t = "some" /\ mem.m = 2 * LoopN)

\* the emits on signal s that count for an instant from i to j - 1
EmitsBetween(s, i, j) ==
    {x \in Events("emit") : x.s = s /\ i <= EmitInstant(x) /\ EmitInstant(x) < j}

\* C5: on the sequential runtime a continuation parked by await_immediate()
\* on an absent signal is run in the current phase of the instant of the
\* emit that takes it out of callbacks (the instant the emit counts for),
\* which is the first emit on the signal since the call;
\* join(S.await_immediate(), S.emit().pause()) is over after 2 instants
\* with the await run in instant 2.
C5_AwaitImmediateInEmitInstant ==
    rt = "seq" =>
        /\ \A a \in Events("aimm") : \A w \in Events("aimm_wake") :
              (a.v = 0 /\ w.id = a.id) =>
                  /\ EmitInstant(w) >= a.i
                  /\ EmitsBetween(a.s, a.i, EmitInstant(w)) = {}
                  /\ \A r \in Events("aimm_run") :
                        r.id = a.id => r.i = EmitInstant(w) /\ r.ph = "cur"
                  /\ (inst > EmitInstant(w) \/ Finished =>
                          \E r \in Events("aimm_run") : r.id = a.id)
        /\ (prog = "s2" /\ Finished =>
                /\ pc = "done" /\ inst = 2
                /\ \E r \in Events("aimm_run") : r.i = 2 /\ r.ph = "cur")

\* join(S.await_immediate(), S.emit().pause()) has returned on the
\* sequential runtime: the await was parked in instant 1 and run in instant 2
C5_Witness ==
    /\ rt = "seq" /\ prog = "s2" /\ pc = "done"
    /\ \E a \in Events("aimm") : \E r \in Events("aimm_run") :
          a.v = 0 /\ a.i = 1 /\ r.id = a.id /\ r.i = 2

\* C6: on the parallel runtime the continuation of an await_immediate()
\* parked on an absent signal runs in the instant of the emit that wakes it,
\* and the graph of test_signal_await ends with n = 1338.
C6_AwaitBeforeLaterEffects ==
    rt = "par" =>
        /\ \A w \in Events("aimm_wake") : \A r \in Events("aimm_run") :
              r.id = w.id => r.i = w.i
        /\ (prog = "signal_await" /\ Finished => result.t = "some" /\ mem.n = 1338)

\* C7: the continuation of an await_immediate() called while the status is
\* present runs in the instant of the call, and the graph of
\* test_signal_await_2, whose signal is preset to present, ends with n = 43.
C7_AwaitImmediateOnPresent ==
    /\ \A a \in Events("aimm") :
          a.v = 1 =>
              /\ \A r \in Events("aimm_run") : r.id = a.id => r.i = a.i
              /\ (inst > a.i \/ Finished => \E r \in Events("aimm_run") : r.id = a.id)
    /\ (prog = "signal_await_2" /\ Finished => result.t = "some" /\ mem.n = 43)

\* C8: an await() initiated in instant T for which an emit counts is handed
\* gather folded from default_value over the emits of T, its continuation
\* runs in instant T + 1, and the graph join(S.emit(value(1)).then(
\* S.emit(value(5))), S.await()) returns 6 as the awaited value.
C8_AwaitGetsFoldOfInstant ==
    /\ \A a \in Events("await") :
          EmitsOf(a.s, a.i) # {} =>
              /\ \A r \in Events("await_res") :
                    r.id = a.id =>
                        r.v = Gathered(sig[a.s].default_value, EmitsOf(a.s, a.i))
              /\ \A r \in Events("await_run") : r.id = a.id => r.i = a.i + 1
              /\ (inst > a.i + 1 \/ Finished => \E r \in Events("await_run") : r.id = a.id)
    /\ (prog = "value_signal_1" /\ Finished => result.t = "some" /\ Awaited = IntV(6))

\* C9: an emit placed after a pause is done in an instant later than the
\* first, an await() of the first instant is not handed its value, and the
\* graph join(S.emit(value(1)).then(S.emit(value(5)).pause()), S.await())
\* returns 1 as the awaited value.
C9_EmitAfterPauseIsLater ==
    prog = "value_signal_2" =>
        /\ \A x \in Events("emit") : x.v = 5 => x.i > 1
        /\ \A a \in Events("await") : \A r \in Events("await_res") :
              (a.i = 1 /\ r.id = a.id) => r.v = 1
        /\ (Finished => result.t = "some" /\ Awaited = IntV(1))

\* C10: current_value is default_value whenever an instant begins, and the
\* graph with emits of 2, 5 and 15 in three consecutive instants returns
\* 10, the product of the awaited values 2 and 5.
C10_ValueResetEveryInstant ==
    /\ (InstantEntry => \A s \in Signals : sig[s].current_value = sig[s].default_value)
    /\ (prog = "value_signal_3" /\ Finished => result.t = "some" /\ Awaited = IntV(10))

\* C11: every await() initiated in an instant T, whether or not an emit
\* counts for T, is handed at the end of T the value gathered over the emits
\* of T, and its continuation runs in instant T + 1; none is left pending.
C11_AwaitServedNextInstant ==
    \A a \in Events("await") :
        /\ \A r \in Events("await_res") :
              r.id = a.id =>
                  /\ r.i = a.i
                  /\ r.v = Gathered(sig[a.s].default_value, EmitsOf(a.s, a.i))
        /\ \A r \in Events("await_run") : r.id = a.id => r.i = a.i + 1
        /\ (inst > a.i + 1 \/ Finished => \E r \in Events("await_run") : r.id = a.id)

RECURSIVE Folds(_, _)
\* the values gather can fold to from acc over the emits S, one for every
\* order in which the emits of S can be performed
Folds(acc, S) ==
    IF S = {} THEN {acc}
    ELSE UNION {Folds(gather(acc, x.v), S \ {x}) : x \in S}

\* C12: with an associative and commutative gather, the value handed to an
\* await() of instant T is the one value that every order of the emits of T
\* folds to: no permutation or interleaving of the emits gives another.
\* The await() is one called in the current phase of T; what the hooks hand
\* to an await() called between them, in the end-of-instant phase, is the
\* subject of C34.
C12_GatherOrderIrrelevant ==
    \A a \in Events("await") : \A r \in Events("await_res") :
        (r.id = a.id /\ a.ph = "cur" /\ EmitsOf(a.s, a.i) # {}) =>
            Folds(sig[a.s].default_value, EmitsOf(a.s, a.i)) = {r.v}

\* an await() of an instant with two emits of different values has been
\* handed its value
C12_Witness ==
    \E a \in Events("await") : \E r \in Events("await_res") :
        /\ r.id = a.id /\ a.ph = "cur"
        /\ \E x, y \in EmitsOf(a.s, a.i) : x.v # y.v

\* C13: the emit process of a value signal completes with (): the graph
\* join(S.emit(value(1)).then(S.emit(value(5))), S.await()) returns ((), 6).
C13_EmitCompletesWithUnit ==
    prog = "value_signal_1" /\ Finished =>
        result.t = "some" /\ result.v = Pair(Unit, IntV(6))

\* C14: when an instant() of the sequential runtime has returned false and
\* execute has returned, no continuation registered with on_current_instant,
\* on_next_instant or on_end_of_instant, in either phase, is still waiting
\* in a queue of the runtime.
C14_NothingPendingAtReturn ==
    (rt = "seq" /\ pc \in {"returned", "done", "panic"}) =>
        /\ current_instant = <<>>
        /\ next_current_instant = <<>>
        /\ end_instant = <<>>
        /\ next_end_instant = <<>>

\* the continuations invoked so far, each with the instant and phase it was
\* registered in (ri, rp), the queue it was registered on (q) and the
\* instant and phase it was invoked in (i, ph)
Runs == Events("run")

\* the entries waiting in the queues of the sequential runtime
Pending ==
    {current_instant[k] : k \in DOMAIN current_instant}
        \cup {next_current_instant[k] : k \in DOMAIN next_current_instant}
        \cup {end_instant[k] : k \in DOMAIN end_instant}
        \cup {next_end_instant[k] : k \in DOMAIN next_end_instant}

\* C15: on the sequential runtime an end-of-instant continuation of instant
\* T runs in the end phase, when nothing registered for the current phase
\* of T is left; what an end-of-instant continuation registers with
\* on_current_instant or on_end_of_instant is not invoked in T but in T + 1,
\* in the current phase resp. the end phase.
C15_EndPhaseRegistrations ==
    /\ \A x \in Runs : x.q = "end" => x.ph = "end"
    /\ pc = "end" =>
          \A e \in Pending :
              (e.q = "current" /\ e.rp \in {"init", "cur"}) => e.ri > inst
    /\ \A x \in Runs :
          (x.rp = "end" /\ x.q \in {"current", "end"}) =>
              /\ x.i = x.ri + 1
              /\ x.ph = IF x.q = "current" THEN "cur" ELSE "end"
    /\ \A e \in Pending :
          (e.rp = "end" /\ e.q \in {"current", "end"}) =>
              /\ inst <= e.ri + 1
              /\ pc \notin {"returned", "done", "panic"}

\* an end-of-instant continuation has registered with on_end_of_instant,
\* and one with on_current_instant, and both registrations have been invoked
C15_Witness ==
    /\ rt = "seq"
    /\ \E x, y \in Runs :
          /\ x.rp = "end" /\ x.q = "current"
          /\ y.rp = "end" /\ y.q = "end"

\* C16: on the sequential runtime a continuation registered with
\* on_next_instant during the current phase of instant T is not invoked by
\* the instant() of T, which returns true; it is invoked in the current
\* phase of the following instant(), which returns false when nothing else
\* was registered (test_continuation: n is 0 after the first instant(), 42
\* after the second, which is the last).
C16_NextInstantRegistration ==
    /\ \A x \in Runs :
          (x.q = "next" /\ x.rp \in {"init", "cur"}) =>
              x.i = x.ri + 1 /\ x.ph = "cur"
    /\ \A e \in Pending :
          (e.q = "next" /\ e.rp \in {"init", "cur"}) =>
              /\ inst <= e.ri + 1
              /\ pc \notin {"returned", "done", "panic"}
    /\ prog = "continuation" =>
          /\ inst <= 2
          /\ (inst = 1 => mem.n = 0)
          /\ (pc = "returned" => inst = 2 /\ mem.n = 42)

\* test_continuation is over: cont_print was registered with
\* on_next_instant in instant 1 and has been invoked
C16_Witness ==
    /\ rt = "seq" /\ prog = "continuation" /\ pc = "returned"
    /\ \E x \in Runs : x.q = "next" /\ x.rp = "cur" /\ x.ri = 1

\* C17: the continuation wrapped by Continuation::pause() is not run in the
\* instant in which the pausing continuation is called; it is run once, in
\* the next instant, with the value of the call (test_continuation_pause:
\* n is 0 during instant 1 and 42 after instant 2; a wrapped continuation
\* that adds its value to n, called with 7, leaves n = 7).
C17_ContinuationPause ==
    /\ \A c \in Events("cpause") :
          /\ \A r \in Events("cpause_run") : r.id = c.id => r.i = c.i + 1
          /\ (inst > c.i + 1 \/ pc \in {"returned", "done", "panic"}) =>
                \E r \in Events("cpause_run") : r.id = c.id
    /\ prog = "continuation_pause" =>
          /\ (inst = 1 => mem.n = 0)
          /\ (pc = "returned" => inst = 2 /\ mem.n = 42)
    /\ (prog = "continuation_pause_value" /\ pc = "returned") => mem.n = 7

\* the runtime has stopped without execute() returning
Halted == pc \in {"deadlock", "relock_panic", "assert_failed", "stuck"}

\* no continuation is waiting in a queue of the runtime or held by a worker
NoWork ==
    /\ current_instant = <<>> /\ next_current_instant = <<>>
    /\ end_instant = <<>> /\ next_end_instant = <<>>
    /\ todo = <<>> /\ count = 0

\* C18: executing value(v).pause().map(f) returns f(v) in exactly two
\* instants, on either runtime: f is not applied during instant 1, it is
\* applied during instant 2, and no work remains afterwards (the graph of
\* test_process_pause with f storing its argument in n, and one whose f
\* also returns its argument plus one).
C18_PauseMapTakesTwoInstants ==
    prog \in {"process_pause", "process_pause_inc"} =>
        LET v == IF prog = "process_pause" THEN 42 ELSE 41
            fv == IF prog = "process_pause" THEN Unit ELSE IntV(42)
        IN  /\ inst <= 2
            /\ ~Halted /\ pc # "panic"
            /\ (inst = 1 => mem.n = 0 /\ result = None)
            /\ (result # None => result = Some(fv) /\ mem.n = v)
            /\ (pc \in {"returned", "done"} =>
                    inst = 2 /\ result = Some(fv) /\ mem.n = v /\ NoWork)

\* execute_process_par(value(41).pause().map(f)) has returned
C18_Witness ==
    rt = "par" /\ prog = "process_pause_inc" /\ pc = "done"

\* C19: for every join(p, q), on either runtime and under every order in
\* which the branches complete, the tail continuation is invoked at most
\* once, not before both branch values have been recorded, and with the
\* pair (value of p, value of q); the joins of a value with a paused value
\* return the values in the positions of their branches.
C19_JoinTail ==
    /\ \A j \in {i \in DOMAIN jp : IsJoin(jp[i])} :
          /\ jp[j].fired <= 1
          /\ jp[j].fired = 0 => jp[j].next # None /\ jp[j].out = None
          /\ jp[j].fired = 1 =>
                /\ jp[j].g1 # None /\ jp[j].g2 # None
                /\ jp[j].out = Some(Pair(jp[j].g1.v, jp[j].g2.v))
    /\ (prog = "parallel" /\ result # None) =>
          result = Some(Pair(IntV(15), IntV(1337)))
    /\ (prog \in {"join_pause_l", "join_pause_r"} /\ result # None) =>
          result = Some(Pair(IntV(1), IntV(2)))

\* on the parallel runtime a join whose second branch completed one instant
\* before the first has called its tail continuation
C19_Witness ==
    /\ rt = "par" /\ prog = "join_pause_l" /\ pc = "done"
    /\ jp[1].fired = 1

\* the graphs that are one multi_join, with the list each must return
MultiJoinPrograms == {"multi_join_1", "multi_join_3", "multi_join_rev"}
MultiJoinValue ==
    IF prog = "multi_join_1" THEN ListV(<<IntV(7)>>)
    ELSE ListV(<<IntV(1), IntV(2), IntV(3)>>)

\* the tail of every multi_join is called at most once, when every process
\* has delivered, with the values of the processes in the order of the list
MultiJoinTailSafe ==
    /\ \A j \in {i \in DOMAIN jp : IsMultiJoin(jp[i])} :
          /\ jp[j].fired <= 1
          /\ jp[j].fired = 0 => jp[j].next # None /\ jp[j].out = None
          /\ jp[j].fired = 1 =>
                /\ \A i \in DOMAIN jp[j].got : jp[j].got[i] # None
                /\ jp[j].out =
                      Some(ListV([i \in DOMAIN jp[j].got |-> jp[j].got[i].v]))
    /\ (prog \in MultiJoinPrograms /\ result # None) => result = Some(MultiJoinValue)

\* C20: for multi_join(ps) with n >= 1 processes the tail continuation is
\* invoked exactly once: never before all n processes have delivered, with
\* the list whose i-th element is the value of the i-th process whatever
\* the order of completion, and the run does not end or stop for ever
\* without the tail having been invoked.
C20_MultiJoinTail ==
    /\ MultiJoinTailSafe
    /\ (prog \in MultiJoinPrograms /\ (Halted \/ Finished)) =>
          jp # <<>> /\ jp[1].fired = 1 /\ pc = "done"

\* C21: while_loop runs its body again after every Continue and stops at
\* the first Exit(v): a body that counts in n and exits with its count at
\* the LoopN-th run is run exactly LoopN times, never after the Exit, and
\* the continuation after the loop (which counts its calls in m) is called
\* exactly once, with v.
C21_WhileLoop ==
    prog = "process_while" =>
        /\ mem.n <= LoopN /\ mem.m <= 1
        /\ ~Halted /\ pc # "panic"
        /\ (mem.m = 1 => mem.n = LoopN)
        /\ (result # None => result = Some(IntV(LoopN)) /\ mem.m = 1)
        /\ (pc \in {"returned", "done"} =>
                result = Some(IntV(LoopN)) /\ mem.n = LoopN /\ mem.m = 1)

\* the loop has been executed on the parallel runtime
C21_Witness ==
    rt = "par" /\ prog = "process_while" /\ pc = "done" /\ mem.n = LoopN

\* C22: if_else(cond, p, q) evaluates cond once (m counts it) and then runs
\* one branch only, p on true and q on false (p adds 1 to n, q adds 10),
\* and returns the value of that branch; the nested graph of
\* test_process_if returns 3.
C22_IfElse ==
    /\ prog \in {"process_if", "if_true", "if_false"} => ~Halted /\ pc # "panic"
    /\ (prog = "process_if" /\ result # None) => result = Some(IntV(3))
    /\ prog = "if_true" =>
          /\ mem.m <= 1 /\ mem.n \in {0, 1}
          /\ (result # None => result = Some(IntV(10)) /\ mem.m = 1 /\ mem.n = 1)
    /\ prog = "if_false" =>
          /\ mem.m <= 1 /\ mem.n \in {0, 10}
          /\ (result # None => result = Some(IntV(20)) /\ mem.m = 1 /\ mem.n = 10)

\* the graph whose condition is false has returned on the parallel runtime
C22_Witness ==
    rt = "par" /\ prog = "if_false" /\ pc = "done" /\ mem.n = 10

\* C23: an await on a single-consumer signal that finds a continuation
\* already waiting panics: its continuation is neither stored nor run, the
\* continuation that was waiting stays the one of the signal until the hook
\* of an emit takes it, and the execution does not return a value.
C23_SecondAwaitFatal ==
    /\ \A a \in Events("uc_await") :
          a.v = 1 =>
              /\ \E u \in Events("unreachable") : u.id = a.id
              /\ \A g \in Signals :
                    \A k \in DOMAIN sig[g].waiting_await :
                        sig[g].waiting_await[k].id # a.id
              /\ \A r \in Events("uc_await_res") \cup Events("uc_await_run") :
                    r.id # a.id
              /\ result = None /\ pc # "done"
    /\ \A a \in Events("uc_await") :
          a.v = 0 =>
              \/ \E k \in DOMAIN sig[a.s].waiting_await :
                    sig[a.s].waiting_await[k].id = a.id
              \/ \E r \in Events("uc_await_res") : r.id = a.id

\* the second await of the graph found the first one waiting, in an instant
\* where the signal was emitted
C23_Witness ==
    /\ prog = "uc_await_emit"
    /\ \E a \in Events("uc_await") : a.v = 1
    /\ \E e \in Events("emit") : e.s = 1
    /\ sig[1].waiting_await # <<>>

\* C24: the await of the consumer of a single-consumer signal is handed,
\* at the end of the instant it was initiated in, the list of exactly the
\* emits of that instant, in the order then imposes on them: [1, 5] for
\* emit(1).then(emit(5)), [1] for emit(1).then(emit(5).pause()).
C24_ConsumerReceivesFold ==
    /\ \A a \in Events("uc_await") :
          a.v = 0 =>
              /\ \A r \in Events("uc_await_res") :
                    r.id = a.id =>
                        r.i = a.i /\ r.v = Cardinality(EmitsOf(a.s, a.i))
              /\ (inst > a.i + 1 \/ Finished =>
                      \E r \in Events("uc_await_res") : r.id = a.id)
    /\ (prog = "uc_1" /\ result # None =>
           result = Some(Pair(Unit, ListV(<<IntV(1), IntV(5)>>))))
    /\ (prog = "uc_2" /\ result # None =>
           result = Some(Pair(Unit, ListV(<<IntV(1)>>))))
    /\ (prog \in {"uc_1", "uc_2"} /\ (Finished \/ Halted) => pc = "done")

\* C25: on a single-producer signal, an await_immediate() of the instant
\* of an emit(v), initiated before or after the emit, is handed v and its
\* continuation runs in that instant; all the waiters get the same value, and
\* join(emit(value(1)), join(await_immediate, await_immediate)) returns
\* ((), (1, 1)).
C25_ProducerValueSameInstant ==
    /\ \A a \in Events("up_aimm") :
          /\ \A e \in Events("up_emit") :
                e.s = a.s /\ e.i = a.i =>
                    \E r \in Events("up_res") : r.id = a.id /\ r.i = a.i /\ r.v = e.v
          /\ \A r \in Events("up_res") :
                r.id = a.id => \E e \in Events("up_emit") : e.i = r.i /\ e.v = r.v
          /\ \A r \in Events("up_res"), x \in Events("up_run") :
                r.id = a.id /\ x.id = a.id => x.i = r.i
          /\ (inst > a.i \/ Finished => \E x \in Events("up_run") : x.id = a.id /\ x.i = a.i)
    /\ (prog = "up_1" /\ result # None =>
           result = Some(Pair(Unit, Pair(IntV(1), IntV(1)))))
    /\ (prog = "up_2" /\ result # None =>
           result = Some(Pair(Pair(IntV(1), IntV(1)), Unit)))
    /\ (prog \in {"up_1", "up_2"} /\ (Finished \/ Halted) => pc = "done")

\* C26: execute_process and execute_process_par return the value their
\* tail continuation was called with, and panic only when that continuation
\* was never called and the runtime has nothing left to run: no continuation
\* waits in a queue.  Once the tail continuation has been called the
\* execution neither panics nor blocks.
C26_ExecuteReturnsOrAborts ==
    /\ (pc = "done" => result # None)
    /\ (pc = "panic" => result = None /\ NoWork)
    /\ (result # None => ~Halted /\ pc # "panic")

\* C27: executing value(42) returns 42 on the sequential and on the
\* parallel runtime, and the execution is over within instant 1: the tail
\* continuation is called in that instant and no second instant is run.
C27_ValueReturnsInOneInstant ==
    prog = "process_return" =>
        /\ inst = 1
        /\ ~Halted /\ pc # "panic"
        /\ (result # None => result = Some(IntV(42)))
        /\ (pc = "done" => result # None)

\* execute_process_par(value(42)) has returned
C27_Witness ==
    rt = "par" /\ prog = "process_return" /\ pc = "done" /\ result = Some(IntV(42))

\* C28: in p.then(q), q starts after p has delivered: in the graphs built
\* on emit(1).then(emit(5)) or emit(1).then(emit(5).pause()) the emit of 5
\* comes after the emit of 1, in the same instant or a later one, and in
\* value(3).map(f).then(value(7).map(f)), f storing its argument in n and
\* returning it plus one, f stores 7 last and the graph returns the value
\* of q, 8.
C28_ThenSequencing ==
    /\ prog \in {"value_signal_1", "value_signal_2", "uc_1", "uc_2"} =>
          \A e5 \in Events("emit") :
              e5.v = 5 =>
                  \E e1 \in Events("emit") :
                      /\ e1.v = 1 /\ e1.s = e5.s
                      /\ e1.id < e5.id
                      /\ EmitInstant(e1) <= EmitInstant(e5)
    /\ prog = "process_then" =>
          /\ mem.n \in {0, 3, 7}
          /\ (mem.n # 7 => result = None)
          /\ (result # None => result = Some(IntV(8)))
          /\ ~Halted /\ pc # "panic"

\* both emits of emit(1).then(emit(5)) have been performed on the parallel
\* runtime, in the same instant
C28_Witness ==
    /\ rt = "par" /\ prog = "uc_1"
    /\ \E e1, e5 \in Events("emit") : e1.v = 1 /\ e5.v = 5 /\ e1.i = e5.i

\* C29: in p.pause().while_loop() every iteration is one instant after
\* the previous one: with a body that only counts its iterations in n and
\* exits at the LoopN-th, iteration k runs in instant k + 1, so during
\* instant j the count is j - 2 or j - 1, and the loop returns in instant
\* LoopN + 1.
C29_PauseLoopOneIterationPerInstant ==
    prog = "pause_loop" =>
        /\ mem.n <= inst - 1
        /\ (mem.n < LoopN => mem.n >= inst - 2)
        /\ (result # None => result = Some(IntV(LoopN)) /\ inst = LoopN + 1)
        /\ inst <= LoopN + 1
        /\ ~Halted /\ pc # "panic"

\* the loop has returned on the parallel runtime after LoopN iterations,
\* the last one in instant LoopN + 1
C29_Witness ==
    /\ rt = "par" /\ prog = "pause_loop" /\ pc = "done"
    /\ mem.n = LoopN /\ inst = LoopN + 1 /\ LoopN >= 2

\* SequentialRuntime::instant and the three registration methods: the
\* instant in which the sequential runtime invokes a continuation registered
\* in instant ri, phase rp, on queue q
SeqInstant(x) ==
    CASE x.q = "current" -> IF x.rp = "end" THEN x.ri + 1 ELSE x.ri
      [] x.q = "next" -> IF x.rp = "end" THEN x.ri + 2 ELSE x.ri + 1
      [] x.q = "end" -> IF x.rp = "end" THEN x.ri + 1 ELSE x.ri

\* the phase in which the sequential runtime invokes it
SeqPhase(x) == IF x.q = "end" THEN "end" ELSE "cur"

\* C30: on the parallel runtime, as on the sequential one, every
\* continuation is invoked in the instant and the phase the sequential
\* runtime invokes it in, given where it was registered, and the execution
\* does not stop in a state the sequential runtime does not have (a blocked
\* or panicking instant()), so that both runtimes take the same instants.
C30_ParallelRunsAsSequential ==
    /\ \A x \in Runs : x.i = SeqInstant(x) /\ x.ph = SeqPhase(x)
    /\ pc \notin {"deadlock", "relock_panic", "assert_failed"}

\* C31: on the parallel runtime the instant and phase in which a
\* continuation registered by an end-of-instant continuation, with
\* on_next_instant or on_end_of_instant, is invoked depend only on the
\* instant of the registration and on the queue: any two such registrations
\* on the same queue are invoked the same number of instants later, in the
\* same phase.
C31_EndRegistrationSlotFixed ==
    rt = "par" =>
        \A x \in Runs : \A y \in Runs :
            (x.rp = "end" /\ y.rp = "end" /\ x.q = y.q /\ x.q \in {"next", "end"}) =>
                x.i - x.ri = y.i - y.ri /\ x.ph = y.ph

\* C32: on the sequential runtime a signal emitted by a continuation of the
\* end-of-instant phase of instant T is present during the whole current
\* phase of instant T + 1, whatever the order of the end-of-instant
\* continuations of T.
C32_EndPhaseEmitIsOfNextInstant ==
    rt = "seq" =>
        \A e \in Events("emit") :
            (e.ph = "end" /\ inst = e.i + 1 /\ pc = "current") => sig[e.s].status

\* C33: a continuation that is handed the result of present(), true at
\* once or false by the end-of-instant hook, can emit the same signal: the
\* emit returns, so the execution of S.present().then(S.emit()), alone or
\* beside an emit of S, is never blocked and returns ().
C33_PresentContinuationNotUnderLock ==
    prog \in {"present_false_emit", "present_true_emit"} =>
        /\ ~Halted /\ pc # "panic"
        /\ \A t \in Events("present_res") :
              (inst > t.i + 1 \/ Finished) => \E e \in Events("emit") : e.id > t.id

\* C34: in an instant with several emits on a value signal, whichever of
\* their end-of-instant hooks hands a value to a continuation waiting in
\* await hands it the accumulation of all the emits of the instant, and no
\* continuation is handed a value twice.
C34_HooksDeliverCompleteValueOnce ==
    /\ \A r \in Events("await_res") :
          Cardinality(EmitsOf(r.s, r.i)) >= 2 =>
              r.v = Gathered(sig[r.s].default_value, EmitsOf(r.s, r.i))
    /\ \A r1 \in Events("await_res") : \A r2 \in Events("await_res") :
          r1.id = r2.id => r1 = r2
    /\ \A x1 \in Events("await_run") : \A x2 \in Events("await_run") :
          x1.id = x2.id => x1 = x2

\* C35: the tail continuation of multi_join over the empty list is called
\* once, with the empty list: the execution of multi_join([]) ends by
\* returning the empty list, it does not end without a result.
C35_EmptyMultiJoinReturns ==
    prog = "multi_join_0" =>
        /\ (result # None => result = Some(ListV(<<>>)))
        /\ \A j \in DOMAIN jp : IsMultiJoin(jp[j]) => jp[j].fired <= 1
        /\ (pc \in {"returned", "done", "panic"} =>
               result # None /\ \E j \in DOMAIN jp : jp[j].fired = 1)

\* C36: on the parallel runtime the executions of the two phases do not
\* overlap: while a worker executes a continuation handed over in the
\* current phase no end-of-instant continuation is in todo or in execution,
\* and while a worker executes an end-of-instant continuation no
\* current-phase continuation is in todo or in execution.
C36_PhasesDoNotOverlap ==
    rt = "par" =>
        \A w \in DOMAIN workers :
            workers[w].busy =>
                /\ \A k \in DOMAIN todo : todo[k].tp = workers[w].ph
                /\ \A u \in DOMAIN workers : workers[u].busy => workers[u].ph = workers[w].ph

\* two workers execute end-of-instant continuations of an instant whose
\* current phase ran continuations
C36_Witness ==
    /\ rt = "par"
    /\ \E w \in DOMAIN workers : \E u \in DOMAIN workers :
          /\ w # u
          /\ workers[w].busy /\ workers[w].ph = "end"
          /\ workers[u].busy /\ workers[u].ph = "end"
    /\ \E x \in Runs : x.i = inst /\ x.ph = "cur"

\* C37: whenever a signal is present, no continuation is parked on it,
\* neither by await_immediate (callbacks) nor by present (waiting_present);
\* and a parked continuation is scheduled at most once: an await_immediate
\* is woken and run once, a present() is resolved once.
C37_PresentSignalHasNoWaiter ==
    /\ \A s \in Signals :
          sig[s].status => sig[s].callbacks = <<>> /\ sig[s].waiting_present = <<>>
    /\ \A x \in Events("aimm_wake") : \A y \in Events("aimm_wake") : x.id = y.id => x = y
    /\ \A x \in Events("aimm_run") : \A y \in Events("aimm_run") : x.id = y.id => x = y
    /\ \A x \in Events("present_res") : \A y \in Events("present_res") :
          x.id = y.id => x = y
    /\ \A s \in Signals :
          /\ \A k \in DOMAIN sig[s].callbacks :
                \A x \in Events("aimm_wake") : x.id # sig[s].callbacks[k].id
          /\ \A k \in DOMAIN sig[s].waiting_present :
                \A x \in Events("present_res") : x.id # sig[s].waiting_present[k].id

\* an emit on the parallel runtime has made a signal present and woken the
\* continuation an await_immediate had parked on it
C37_Witness ==
    /\ rt = "par"
    /\ \E s \in Signals : sig[s].status
    /\ \E a \in Events("aimm") : \E x \in Events("aimm_wake") : a.v = 0 /\ x.id = a.id

\* C38: the counter of TodoQueue is never negative and is the number of
\* continuations pushed to todo whose done() has not been called: those
\* still in the queue plus those a worker is executing.
C38_CounterIsOutstanding ==
    /\ count >= 0
    /\ count = Len(todo) + Cardinality({w \in DOMAIN workers : workers[w].busy})

\* one continuation waits in todo while a worker executes another
C38_Witness ==
    /\ rt = "par" /\ count = 2 /\ Len(todo) = 1
    /\ \E w \in DOMAIN workers : workers[w].busy

\* C39: the assertion at the entry of ParallelRuntime::instant holds at
\* every entry, the first and every re-entry from the loop of execute: the
\* counter of todo is 0, todo is empty and no worker is executing.
C39_EntryAssertionHolds ==
    /\ pc # "assert_failed"
    /\ (rt = "par" /\ pc = "assert" =>
           /\ count = 0 /\ todo = <<>>
           /\ \A w \in DOMAIN workers : ~workers[w].busy)

\* instant() is entered again after an instant in which workers ran
\* continuations of both phases
C39_Witness ==
    /\ rt = "par" /\ pc = "assert" /\ inst >= 2
    /\ \E x \in Runs : x.i = inst - 1 /\ x.ph = "end"
    /\ \E x \in Runs : x.i = inst - 1 /\ x.ph = "cur"

====
